---- MODULE Spec2Model ----
(***************************************************************************)
(* PMU emulation helpers for TCG IBM POWER chips (target/ppc).             *)
(*                                                                         *)
(* Three generations of the helper are modelled:                           *)
(*   - the per-counter-timer helper (src/unnamed/part_004), specification  *)
(*     Spec;                                                               *)
(*   - the single-timer helper with stall events                           *)
(*     (src/target/ppc/pmu_book3s_helper.c), specification SpecB3S;        *)
(*   - the instruction-count based helper (src/tests/libqos/rtas.c),       *)
(*     specification SpecRTAS.                                             *)
(*                                                                         *)
(* Registers are uint64_t.  A 64-bit value is kept as four 16-bit limbs,   *)
(* least significant first, so that 0x80000000 and wrap-around at 2^64 are *)
(* exact.                                                                  *)
(***************************************************************************)
EXTENDS Integers, Sequences, FiniteSets, TLC

VARIABLES env, now, last, ops, ticks, hist

vars == <<env, now, last, ops, ticks, hist>>

(***************************************************************************)
(* Bounds of the exploration.                                              *)
(***************************************************************************)
MaxOps == 3
MaxTicks == 2
MaxOpsB3S == 4

(***************************************************************************)
(* uint64_t arithmetic on limbs.                                           *)
(***************************************************************************)
Base == 256 * 256

U64(n) == <<n % Base, (n \div Base) % Base, 0, 0>>

Add64(a, b) ==
  LET s1 == a[1] + b[1]
      s2 == a[2] + b[2] + (s1 \div Base)
      s3 == a[3] + b[3] + (s2 \div Base)
      s4 == a[4] + b[4] + (s3 \div Base)
  IN  <<s1 % Base, s2 % Base, s3 % Base, s4 % Base>>

Sub64(a, b) ==
  LET s1 == a[1] - b[1] + Base
      s2 == a[2] - b[2] - (1 - (s1 \div Base)) + Base
      s3 == a[3] - b[3] - (1 - (s2 \div Base)) + Base
      s4 == a[4] - b[4] - (1 - (s3 \div Base)) + Base
  IN  <<s1 % Base, s2 % Base, s3 % Base, s4 % Base>>

Lt64(a, b) ==
  \/ a[4] < b[4]
  \/ a[4] = b[4] /\ a[3] < b[3]
  \/ a[4] = b[4] /\ a[3] = b[3] /\ a[2] < b[2]
  \/ a[4] = b[4] /\ a[3] = b[3] /\ a[2] = b[2] /\ a[1] < b[1]

Geq64(a, b) == ~Lt64(a, b)

Leq64(a, b) == ~Lt64(b, a)

RECURSIVE MulLimbs(_, _, _)
\* limbs (least significant first) times a small k, plus carry; the carry out
\* of the last limb is dropped
MulLimbs(s, k, carry) ==
  IF s = <<>> THEN <<>>
  ELSE <<(Head(s) * k + carry) % Base>>
         \o MulLimbs(Tail(s), k, (Head(s) * k + carry) \div Base)

RECURSIVE DivLimbs(_, _, _)
\* limbs (most significant first) divided by a small k, rem the running
\* remainder
DivLimbs(s, k, rem) ==
  IF s = <<>> THEN <<>>
  ELSE <<(rem * Base + Head(s)) \div k>>
         \o DivLimbs(Tail(s), k, (rem * Base + Head(s)) % k)

Reverse(s) == [i \in 1 .. Len(s) |-> s[Len(s) + 1 - i]]

\* uint64_t multiplication by a small factor (wraps at 2^64)
Mul64(a, k) == MulLimbs(a, k, 0)

\* the 128-bit intermediate of muldiv64
Wide(a) == a \o <<0, 0, 0, 0>>

MulWide(w, k) == MulLimbs(w, k, 0)

DivWide(w, k) == Reverse(DivLimbs(Reverse(w), k, 0))

\* muldiv64(a, b, c) == (a * b) / c, the product on 128 bits, the quotient
\* truncated to 64 bits; b and c small
muldiv64(a, b, c) == SubSeq(DivWide(MulWide(Wide(a), b), c), 1, 4)

\* (int64_t) -1, the "no timeout" value of get_counter_neg_timeout
MinusOne == <<65535, 65535, 65535, 65535>>

\* #define COUNTER_NEGATIVE_VAL 0x80000000
COUNTER_NEGATIVE_VAL == <<0, 32768, 0, 0>>

(***************************************************************************)
(* Registers.  PMC1..PMC6 are numbered 1..6.  MMCR0 is the set of its bits *)
(* that are 1; MMCR1 is the four event-selection fields PMC1SEL..PMC4SEL   *)
(* (no other MMCR1 bit is read by the helpers).                            *)
(***************************************************************************)
PMCs == 1 .. 6

ProgrammablePMCs == 1 .. 4

\* the counters that own an overflow timer (PMC1-4 and PMC6)
TimerPMCs == {1, 2, 3, 4, 6}

\* timer_del()/not yet armed: no expire time
NotPending == <<>>

NoTimers == [i \in TimerPMCs |-> NotPending]

(***************************************************************************)
(* Per-counter-timer helper (src/unnamed/part_004)                         *)
(***************************************************************************)

\* cpu_ppc_pmu_timer_init: timers created (not armed), events initialised;
\* the registers and pmu_base_time of a fresh CPUPPCState are zero
cpu_ppc_pmu_timer_init ==
  [mmcr0 |-> {},
   mmcr1 |-> <<0, 0, 0, 0>>,
   ctrl_run |-> FALSE,
   pmc |-> [s \in PMCs |-> U64(0)],
   pmu_base_time |-> U64(0),
   pmu_events |-> [s \in PMCs |-> IF s = 5 THEN "INSTRUCTIONS"
                                   ELSE IF s = 6 THEN "CYCLES" ELSE "INVALID"],
   pmu_intr_timers |-> NoTimers,
   irq |-> 0]

\* the switch of define_enabled_events for one counter: the new event type
event_type(sprn, pmcsel, old) ==
  CASE pmcsel = 2 -> "INSTRUCTIONS"
    [] pmcsel = 30 -> "CYCLES"
    [] pmcsel = 240 -> IF sprn = 1 THEN "CYCLES" ELSE old
    [] pmcsel = 250 -> IF sprn = 4 THEN "INSN_RUN_LATCH" ELSE old
    [] pmcsel = 254 -> IF sprn = 1 THEN "INSTRUCTIONS" ELSE old
    [] OTHER -> "INVALID"

\* the loop run over the six counters, PMC5 and PMC6 finding no selection
define_enabled_events_all(e) ==
  [e EXCEPT !.pmu_events =
     [s \in PMCs |-> IF s \in ProgrammablePMCs
                        THEN event_type(s, e.mmcr1[s], e.pmu_events[s])
                        ELSE event_type(s, 0, e.pmu_events[s])]]

define_enabled_events(e) ==
  [e EXCEPT !.pmu_events =
     [s \in PMCs |-> IF s \in ProgrammablePMCs
                        THEN event_type(s, e.mmcr1[s], e.pmu_events[s])
                        ELSE e.pmu_events[s]]]

\* the group bits taken for one another
pmu_event_is_active_swapped(e, sprn) ==
  IF sprn < 5 THEN "FC56" \notin e.mmcr0 ELSE "FC14" \notin e.mmcr0

pmu_event_is_active(e, sprn) ==
  IF sprn < 5 THEN "FC14" \notin e.mmcr0 ELSE "FC56" \notin e.mmcr0

pmu_event_has_overflow_enabled(e, sprn) ==
  IF sprn = 1 THEN "PMC1CE" \in e.mmcr0 ELSE "PMCjCE" \in e.mmcr0

pmu_event_counts_insns(e, sprn) ==
  e.pmu_events[sprn] \in {"INSTRUCTIONS", "INSN_RUN_LATCH"}

\* every instruction event gated by the run latch
insns_added_run_latch(e, sprn, num_insns) ==
  IF e.pmu_events[sprn] \in {"INSTRUCTIONS", "INSN_RUN_LATCH"} /\ e.ctrl_run
    THEN Add64(e.pmc[sprn], U64(num_insns)) ELSE e.pmc[sprn]

\* one iteration of the loop of pmu_events_increment_insns: the value the
\* counter has after the additions, before the overflow test
insns_added(e, sprn, num_insns) ==
  LET v1 == IF e.pmu_events[sprn] = "INSTRUCTIONS"
              THEN Add64(e.pmc[sprn], U64(num_insns)) ELSE e.pmc[sprn]
  IN  IF e.pmu_events[sprn] = "INSN_RUN_LATCH" /\ e.ctrl_run
        THEN Add64(v1, U64(num_insns)) ELSE v1

insns_counted(e, sprn) ==
  /\ sprn \in 1 .. 5
  /\ pmu_event_is_active(e, sprn)
  /\ pmu_event_counts_insns(e, sprn)

insns_overflow(e, sprn, num_insns) ==
  /\ insns_counted(e, sprn)
  /\ Geq64(insns_added(e, sprn, num_insns), COUNTER_NEGATIVE_VAL)
  /\ pmu_event_has_overflow_enabled(e, sprn)

\* the overflow flagged but the counter left above the threshold
pmu_events_increment_insns_unclamped(e, num_insns) ==
  [e EXCEPT !.pmc =
     [s \in PMCs |-> IF ~insns_counted(e, s) THEN e.pmc[s]
                     ELSE insns_added(e, s, num_insns)]]

\* pmu_events_increment_insns: the counters after the loop
pmu_events_increment_insns(e, num_insns) ==
  [e EXCEPT !.pmc =
     [s \in PMCs |-> IF ~insns_counted(e, s) THEN e.pmc[s]
                     ELSE IF insns_overflow(e, s, num_insns)
                            THEN COUNTER_NEGATIVE_VAL
                            ELSE insns_added(e, s, num_insns)]]

\* its return value
overflow_triggered(e, num_insns) ==
  \E s \in PMCs : insns_overflow(e, s, num_insns)

helper_store_mmcr1(e, value) ==
  define_enabled_events([e EXCEPT !.mmcr1 = value])

\* the elapsed time stored instead of added
update_PMC_PM_CYC_assigned(v, time_delta) == time_delta

update_PMC_PM_CYC(v, time_delta) == Add64(v, time_delta)

get_PMC_event(e, sprn) ==
  IF sprn \in ProgrammablePMCs THEN e.mmcr1[sprn] ELSE 0

pmc_is_running(e, sprn) ==
  IF sprn < 5 THEN "FC14" \notin e.mmcr0 ELSE "FC56" \notin e.mmcr0

\* the new value of a programmable counter
update_programmable_PMC_reg(e, sprn, time_delta) ==
  LET event == get_PMC_event(e, sprn)
  IN  CASE event = 240 -> IF sprn = 1
                            THEN update_PMC_PM_CYC(e.pmc[sprn], time_delta)
                            ELSE e.pmc[sprn]
        [] event = 30 -> update_PMC_PM_CYC(e.pmc[sprn], time_delta)
        [] OTHER -> e.pmc[sprn]

update_cycles_PMCs(e, t) ==
  LET time_delta == Sub64(t, e.pmu_base_time)
      PMC14_running == "FC14" \notin e.mmcr0
      PMC6_running == "FC56" \notin e.mmcr0
  IN  [e EXCEPT
         !.pmc = [s \in PMCs |->
                    IF s \in ProgrammablePMCs /\ PMC14_running
                      THEN update_programmable_PMC_reg(e, s, time_delta)
                    ELSE IF s = 6 /\ PMC6_running
                      THEN update_PMC_PM_CYC(e.pmc[6], time_delta)
                    ELSE e.pmc[s]],
         !.pmu_base_time = IF "FC" \notin e.mmcr0 THEN t ELSE @]

\* the distance to the threshold taken from zero
get_CYC_timeout_from_zero(e, sprn) ==
  IF Geq64(e.pmc[sprn], COUNTER_NEGATIVE_VAL)
    THEN U64(0)
    ELSE COUNTER_NEGATIVE_VAL

get_CYC_timeout(e, sprn) ==
  IF Geq64(e.pmc[sprn], COUNTER_NEGATIVE_VAL)
    THEN U64(0)
    ELSE Sub64(COUNTER_NEGATIVE_VAL, e.pmc[sprn])

pmc_counter_negative_enabled(e, sprn) ==
  IF ~pmc_is_running(e, sprn) THEN FALSE
  ELSE IF sprn = 1 THEN "PMC1CE" \in e.mmcr0
  ELSE "PMCjCE" \in e.mmcr0

\* the distance to the threshold subtracted without the test for a counter
\* already past it
get_counter_neg_timeout_wrapped(e, sprn) ==
  IF ~pmc_counter_negative_enabled(e, sprn) THEN MinusOne
  ELSE IF sprn \in ProgrammablePMCs
    THEN CASE get_PMC_event(e, sprn) = 240 ->
                IF sprn = 1 THEN Sub64(COUNTER_NEGATIVE_VAL, e.pmc[sprn])
                            ELSE MinusOne
           [] get_PMC_event(e, sprn) = 30 ->
                Sub64(COUNTER_NEGATIVE_VAL, e.pmc[sprn])
           [] OTHER -> MinusOne
  ELSE IF sprn = 6 THEN Sub64(COUNTER_NEGATIVE_VAL, e.pmc[sprn])
  ELSE MinusOne

get_counter_neg_timeout(e, sprn) ==
  IF ~pmc_counter_negative_enabled(e, sprn) THEN MinusOne
  ELSE IF Geq64(e.pmc[sprn], COUNTER_NEGATIVE_VAL) THEN U64(0)
  ELSE IF sprn \in ProgrammablePMCs
    THEN CASE get_PMC_event(e, sprn) = 240 ->
                IF sprn = 1 THEN get_CYC_timeout(e, sprn) ELSE MinusOne
           [] get_PMC_event(e, sprn) = 30 -> get_CYC_timeout(e, sprn)
           [] OTHER -> MinusOne
  ELSE IF sprn = 6 THEN get_CYC_timeout(e, sprn)
  ELSE MinusOne

counter_negative_cond_enabled(mmcr0) ==
  "PMC1CE" \in mmcr0 \/ "PMCjCE" \in mmcr0

pmu_delete_timers(e) == [e EXCEPT !.pmu_intr_timers = NoTimers]

\* the timers of the session before left pending
start_cycle_count_session_keep_timers(e, t) ==
  LET e1 == [e EXCEPT !.pmu_base_time = t]
  IN  IF ~counter_negative_cond_enabled(e1.mmcr0) THEN e1
      ELSE [e1 EXCEPT !.pmu_intr_timers =
              [i \in TimerPMCs |->
                 IF get_counter_neg_timeout(e1, i) = MinusOne
                   THEN e1.pmu_intr_timers[i]
                   ELSE Add64(t, get_counter_neg_timeout(e1, i))]]

start_cycle_count_session(e, t) ==
  LET e1 == pmu_delete_timers([e EXCEPT !.pmu_base_time = t])
  IN  IF ~counter_negative_cond_enabled(e1.mmcr0) THEN e1
      ELSE [e1 EXCEPT !.pmu_intr_timers =
              [i \in TimerPMCs |->
                 IF get_counter_neg_timeout(e1, i) = MinusOne
                   THEN NotPending
                   ELSE Add64(t, get_counter_neg_timeout(e1, i))]]

\* PMAO set by every fire, whatever MMCR0[PMAE] says
fire_PMC_interrupt_sets_PMAO(e, t) ==
  IF "EBE" \notin e.mmcr0 THEN e
  ELSE
    LET e1 == IF "FCECE" \in e.mmcr0
                THEN pmu_delete_timers(
                       [e EXCEPT !.mmcr0 = (@ \ {"FCECE"}) \cup {"FC"}])
                ELSE e
        e2 == update_cycles_PMCs(e1, t)
        e3 == [e2 EXCEPT !.mmcr0 = (@ \ {"PMAE"}) \cup {"PMAO"}]
    IN  [e3 EXCEPT !.irq = @ + 1]

\* the interrupt raised whatever MMCR0[EBE] says
fire_PMC_interrupt_no_EBE(e, t) ==
  LET e1 == IF "FCECE" \in e.mmcr0
              THEN pmu_delete_timers(
                     [e EXCEPT !.mmcr0 = (@ \ {"FCECE"}) \cup {"FC"}])
              ELSE e
      e2 == update_cycles_PMCs(e1, t)
      e3 == IF "PMAE" \in e2.mmcr0
              THEN [e2 EXCEPT !.mmcr0 = (@ \ {"PMAE"}) \cup {"PMAO"}]
              ELSE e2
  IN  [e3 EXCEPT !.irq = @ + 1]

fire_PMC_interrupt(e, t) ==
  IF "EBE" \notin e.mmcr0 THEN e
  ELSE
    LET e1 == IF "FCECE" \in e.mmcr0
                THEN pmu_delete_timers(
                       [e EXCEPT !.mmcr0 = (@ \ {"FCECE"}) \cup {"FC"}])
                ELSE e
        e2 == update_cycles_PMCs(e1, t)
        e3 == IF "PMAE" \in e2.mmcr0
                THEN [e2 EXCEPT !.mmcr0 = (@ \ {"PMAE"}) \cup {"PMAO"}]
                ELSE e2
    IN  [e3 EXCEPT !.irq = @ + 1]

\* the timer of counter i expires: it leaves the active list, then the
\* callback runs
cpu_ppc_pmu_timer_cb(e, t, i) ==
  fire_PMC_interrupt([e EXCEPT !.pmu_intr_timers[i] = NotPending], t)

\* the notification bits changed in a running PMU: the timers restarted
\* without the flush
helper_store_mmcr0_no_flush(e, t, value) ==
  LET curr_value == e.mmcr0
      curr_FC == "FC" \in curr_value
      new_FC == "FC" \in value
      e1 == [e EXCEPT !.mmcr0 = value]
  IN  IF curr_FC # new_FC
        THEN IF ~curr_FC THEN update_cycles_PMCs(e1, t)
                         ELSE start_cycle_count_session(e1, t)
      ELSE IF curr_FC THEN e1
      ELSE IF /\ ("PMC1CE" \in curr_value) = ("PMC1CE" \in value)
              /\ ("PMCjCE" \in curr_value) = ("PMCjCE" \in value)
             THEN e1
      ELSE start_cycle_count_session(e1, t)

helper_store_mmcr0(e, t, value) ==
  LET curr_value == e.mmcr0
      curr_FC == "FC" \in curr_value
      new_FC == "FC" \in value
      e1 == [e EXCEPT !.mmcr0 = value]
  IN  IF curr_FC # new_FC
        THEN IF ~curr_FC THEN update_cycles_PMCs(e1, t)
                         ELSE start_cycle_count_session(e1, t)
      ELSE IF curr_FC THEN e1
      ELSE IF /\ ("PMC1CE" \in curr_value) = ("PMC1CE" \in value)
              /\ ("PMCjCE" \in curr_value) = ("PMCjCE" \in value)
             THEN e1
      ELSE start_cycle_count_session(update_cycles_PMCs(e1, t), t)

helper_insns_inc(e, t, num_insns) ==
  IF overflow_triggered(e, num_insns)
    THEN fire_PMC_interrupt(pmu_events_increment_insns(e, num_insns), t)
    ELSE pmu_events_increment_insns(e, num_insns)

\* the baseline reset without crediting the counters
helper_store_pmc_no_flush(e, t, sprn, value) ==
  IF "FC" \in e.mmcr0
    THEN [e EXCEPT !.pmc[sprn] = value]
    ELSE start_cycle_count_session(
           [e EXCEPT !.pmc[sprn] = value, !.pmu_base_time = t], t)

\* the value written before the flush
helper_store_pmc_then_flush(e, t, sprn, value) ==
  IF "FC" \in e.mmcr0
    THEN [e EXCEPT !.pmc[sprn] = value]
    ELSE start_cycle_count_session(
           update_cycles_PMCs([e EXCEPT !.pmc[sprn] = value], t), t)

\* the frozen case not told apart
helper_store_pmc_unguarded(e, t, sprn, value) ==
  start_cycle_count_session(
    [update_cycles_PMCs(e, t) EXCEPT !.pmc[sprn] = value], t)

helper_store_pmc(e, t, sprn, value) ==
  IF "FC" \in e.mmcr0
    THEN [e EXCEPT !.pmc[sprn] = value]
    ELSE start_cycle_count_session(
           [update_cycles_PMCs(e, t) EXCEPT !.pmc[sprn] = value], t)

(***************************************************************************)
(* Inputs of the guest and of the virtual clock.                           *)
(***************************************************************************)
\* values written to MMCR0
MMCR0Values ==
  { {}, {"FC"}, {"FC14"}, {"FC56"},
    {"FC", "PMCjCE", "EBE", "FCECE"},
    {"PMC1CE", "PMCjCE", "EBE"},
    {"PMCjCE", "EBE", "FCECE", "PMAE"},
    {"PMCjCE"} }

\* values written to MMCR1: PMC1SEL .. PMC4SEL
MMCR1Values ==
  { <<30, 2, 30, 250>>, <<240, 30, 240, 2>>, <<254, 240, 0, 30>> }

\* values written to a counter
PMCValues ==
  { U64(0), Sub64(COUNTER_NEGATIVE_VAL, U64(2)),
    Add64(COUNTER_NEGATIVE_VAL, U64(1)) }

\* the counters the guest writes
WrittenPMCs == {1, 4, 5, 6}

\* sizes of the instruction batches
InsnBatches == {5, 7, 10}

\* nanoseconds the virtual clock advances in one step
TickSizes == {100}

NoPrev == [op |-> "none", sprn |-> 0, value |-> U64(0), at |-> U64(0),
           was_fc |-> FALSE, was_mmcr0 |-> {}]

NoOp == [op |-> "init", sprn |-> 0, value |-> U64(0), mmcr0 |-> {},
         n |-> 0, at |-> U64(0), was_fc |-> FALSE, was_mmcr0 |-> {},
         prev |-> NoPrev]

\* the record of a handler that runs now: its name and arguments, the time,
\* MMCR0 (and its FC bit) as it finds it, and the handler that ran before it
Handler(op, sprn, value, m0, n) ==
  [op |-> op, sprn |-> sprn, value |-> value, mmcr0 |-> m0, n |-> n,
   at |-> now, was_fc |-> "FC" \in env.mmcr0, was_mmcr0 |-> env.mmcr0,
   prev |-> [op |-> last.op, sprn |-> last.sprn, value |-> last.value,
             at |-> last.at, was_fc |-> last.was_fc,
             was_mmcr0 |-> last.was_mmcr0]]

(***************************************************************************)
(* The machine of the per-counter-timer helper.  last records the handler  *)
(* that ran last, its arguments and the virtual time it ran at.            *)
(***************************************************************************)
Init ==
  /\ env = cpu_ppc_pmu_timer_init
  /\ now = U64(0)
  /\ last = NoOp
  /\ ops = 0
  /\ ticks = 0
  /\ hist = <<>>

PendingDeadlines(e) ==
  { e.pmu_intr_timers[i] : i \in { j \in TimerPMCs :
                                     e.pmu_intr_timers[j] # NotPending } }

\* the virtual clock advances, never past the expire time of a pending timer
Tick ==
  /\ ticks < MaxTicks
  /\ \E d \in TickSizes :
       /\ \A dl \in PendingDeadlines(env) : Leq64(Add64(now, U64(d)), dl)
       /\ now' = Add64(now, U64(d))
  /\ ticks' = ticks + 1
  /\ UNCHANGED <<env, last, ops, hist>>

\* the virtual clock advances to the earliest expire time
TickToDeadline ==
  /\ ticks < MaxTicks
  /\ \E dl \in PendingDeadlines(env) :
       /\ Lt64(now, dl)
       /\ \A o \in PendingDeadlines(env) : Leq64(dl, o)
       /\ now' = dl
  /\ ticks' = ticks + 1
  /\ UNCHANGED <<env, last, ops, hist>>

TimerCb ==
  /\ ops < MaxOps
  /\ \E i \in TimerPMCs :
       /\ env.pmu_intr_timers[i] # NotPending
       /\ Leq64(env.pmu_intr_timers[i], now)
       /\ env' = cpu_ppc_pmu_timer_cb(env, now, i)
       /\ last' = Handler("timer_cb", i, U64(0), {}, 0)
  /\ ops' = ops + 1
  /\ UNCHANGED <<now, ticks, hist>>

StoreMMCR0 ==
  /\ ops < MaxOps
  /\ \E value \in MMCR0Values :
       /\ env' = helper_store_mmcr0(env, now, value)
       /\ last' = Handler("store_mmcr0", 0, U64(0), value, 0)
  /\ ops' = ops + 1
  /\ UNCHANGED <<now, ticks, hist>>

StoreMMCR1 ==
  /\ ops < MaxOps
  /\ \E value \in MMCR1Values :
       /\ env' = helper_store_mmcr1(env, value)
       /\ last' = Handler("store_mmcr1", 0, U64(0), {}, 0)
  /\ ops' = ops + 1
  /\ UNCHANGED <<now, ticks, hist>>

StorePMC ==
  /\ ops < MaxOps
  /\ \E sprn \in WrittenPMCs, value \in PMCValues :
       /\ env' = helper_store_pmc(env, now, sprn, value)
       /\ last' = Handler("store_pmc", sprn, value, {}, 0)
  /\ ops' = ops + 1
  /\ UNCHANGED <<now, ticks, hist>>

InsnsInc ==
  /\ ops < MaxOps
  /\ \E n \in InsnBatches :
       /\ env' = helper_insns_inc(env, now, n)
       /\ last' = Handler("insns_inc", 0, U64(0), {}, n)
  /\ ops' = ops + 1
  /\ UNCHANGED <<now, ticks, hist>>

\* the guest sets or clears CTRL[RUN]
StoreCTRL ==
  /\ ops < MaxOps
  /\ env' = [env EXCEPT !.ctrl_run = ~@]
  /\ last' = Handler("store_ctrl", 0, U64(0), {}, 0)
  /\ ops' = ops + 1
  /\ UNCHANGED <<now, ticks, hist>>

Next ==
  \/ Tick
  \/ TickToDeadline
  \/ TimerCb
  \/ StoreMMCR0
  \/ StoreMMCR1
  \/ StorePMC
  \/ InsnsInc
  \/ StoreCTRL

Spec == Init /\ [][Next]_vars

(***************************************************************************)
(* Vocabulary of the properties.                                           *)
(***************************************************************************)
\* this step runs the handler op (a clock step changes neither ops nor last)
StepIs(op) == ops' = ops + 1 /\ last'.op = op

\* the counter's event counts cycles in the per-counter-timer helper: PMC6,
\* PMC1-4 selected with 0x1E, PMC1 selected with 0xF0
CycleCounting(e, c) ==
  \/ c = 6
  \/ c \in 1 .. 4 /\ e.mmcr1[c] = 30
  \/ c = 1 /\ e.mmcr1[c] = 240

\* the freeze bit of the counter's group (FC14 or FC56) is set in mmcr0
GroupFrozen(mmcr0, c) ==
  IF c \in 1 .. 4 THEN "FC14" \in mmcr0 ELSE "FC56" \in mmcr0

\* the overflow-notification bit of the counter (PMC1CE or PMCjCE) is set
NotificationOn(mmcr0, c) ==
  IF c = 1 THEN "PMC1CE" \in mmcr0 ELSE "PMCjCE" \in mmcr0

(***************************************************************************)
(* C1  A helper_store_mmcr0 write that changes MMCR0[FC] from 0 to 1       *)
(* leaves no overflow timer pending (so that no callback can run while the *)
(* PMU stays frozen).                                                      *)
(***************************************************************************)
C1_FreezeCancelsTimers ==
  [][(StepIs("store_mmcr0") /\ "FC" \notin env.mmcr0 /\ "FC" \in env'.mmcr0)
       => \A i \in TimerPMCs : env'.pmu_intr_timers[i] = NotPending]_vars

(***************************************************************************)
(* C2  As claimed: while MMCR0[FC] is set, helper_insns_inc(N) changes no  *)
(* counter, whatever FC14, FC56 and MMCR1 are.                             *)
(***************************************************************************)
C2_FrozenInsnsIncChangesNothing ==
  [][(StepIs("insns_inc") /\ "FC" \in env.mmcr0)
       => env'.pmc = env.pmc]_vars

(***************************************************************************)
(* C2  As amended: helper_insns_inc(N) changes no counter whose group      *)
(* freeze bit (FC14 for PMC1-4, FC56 for PMC5-6) is set.                   *)
(***************************************************************************)
C2_FrozenGroupUnchanged ==
  [][StepIs("insns_inc")
       => \A c \in PMCs :
            GroupFrozen(env.mmcr0, c) => env'.pmc[c] = env.pmc[c]]_vars

\* a batch ran with PMC1-4 frozen and PMC2 selected for instructions: PMC5
\* counted it, PMC2 did not
C2_Witness ==
  /\ last.op = "insns_inc"
  /\ "FC14" \in env.mmcr0
  /\ "FC56" \notin env.mmcr0
  /\ env.pmu_events[2] = "INSTRUCTIONS"
  /\ env.pmc[2] = U64(0)
  /\ env.pmc[5] = U64(last.n)

(***************************************************************************)
(* C3  For a cycle-counting counter whose group is not frozen: MMCR0[FC]   *)
(* cleared at t0 and set again at t1 with only the clock advancing in      *)
(* between adds exactly t1 - t0 to the counter.                            *)
(***************************************************************************)
C3_CyclesOverOneSession ==
  [][(/\ StepIs("store_mmcr0")
      /\ last.op = "store_mmcr0" /\ last.was_fc /\ "FC" \notin env.mmcr0
      /\ "FC" \in env'.mmcr0)
       => \A c \in PMCs :
            (/\ CycleCounting(env, c)
             /\ ~GroupFrozen(env.mmcr0, c)
             /\ ~GroupFrozen(env'.mmcr0, c))
              => env'.pmc[c] = Add64(env.pmc[c], Sub64(now, last.at))]_vars

\* frozen and unfrozen at t = 0, frozen again at t = 100: PMC6 reads 100
C3_Witness ==
  /\ last.op = "store_mmcr0" /\ ~last.was_fc /\ "FC" \in env.mmcr0
  /\ last.prev.op = "store_mmcr0" /\ last.prev.was_fc
  /\ last.prev.at = U64(0)
  /\ last.at = U64(100)
  /\ "FC56" \notin env.mmcr0
  /\ env.pmc[6] = U64(100)

(***************************************************************************)
(* C4  A counter resolved to PMU_EVENT_INSTRUCTIONS changes only by a      *)
(* write to it and by helper_insns_inc; a batch of n adds exactly n to it  *)
(* when its group runs and the sum stays below 0x80000000 or its overflow  *)
(* notification is off.  From 0, the batches 10, 5, 7 give 22.             *)
(***************************************************************************)
C4_InstructionsSum ==
  [][\A c \in PMCs :
       (/\ env.pmu_events[c] = "INSTRUCTIONS"
        /\ ~(StepIs("store_pmc") /\ last'.sprn = c))
         => IF StepIs("insns_inc")
              THEN (/\ ~GroupFrozen(env.mmcr0, c)
                    /\ \/ Lt64(Add64(env.pmc[c], U64(last'.n)),
                               COUNTER_NEGATIVE_VAL)
                       \/ ~NotificationOn(env.mmcr0, c))
                     => env'.pmc[c] = Add64(env.pmc[c], U64(last'.n))
              ELSE env'.pmc[c] = env.pmc[c]]_vars

\* three batches from the initial state: PMC5 reads 22
C4_Witness ==
  /\ last.op = "insns_inc" /\ last.prev.op = "insns_inc"
  /\ ops = 3
  /\ last.n = 7
  /\ env.pmc[5] = U64(22)

(***************************************************************************)
(* C6  A running cycle-counting counter written with 0x80000000 - d,       *)
(* d > 0, its notification bit set: the write arms its timer d ns ahead;   *)
(* with MMCR0[EBE] set and only the clock advancing after the write, the   *)
(* callback of that timer runs exactly d ns after the write, leaves the    *)
(* counter >= 0x80000000, raises the PMC interrupt once and leaves the     *)
(* timer not pending.                                                      *)
(***************************************************************************)
C6_OverflowAfterWrite ==
  [][/\ (/\ StepIs("store_pmc")
         /\ "FC" \notin env.mmcr0
         /\ CycleCounting(env, last'.sprn)
         /\ ~GroupFrozen(env.mmcr0, last'.sprn)
         /\ NotificationOn(env.mmcr0, last'.sprn)
         /\ Lt64(last'.value, COUNTER_NEGATIVE_VAL))
          => env'.pmu_intr_timers[last'.sprn]
               = Add64(now, Sub64(COUNTER_NEGATIVE_VAL, last'.value))
     /\ (/\ StepIs("timer_cb")
         /\ last.op = "store_pmc" /\ ~last.was_fc
         /\ last'.sprn = last.sprn
         /\ Lt64(last.value, COUNTER_NEGATIVE_VAL)
         /\ "EBE" \in env.mmcr0)
          => /\ now = Add64(last.at, Sub64(COUNTER_NEGATIVE_VAL, last.value))
             /\ Geq64(env'.pmc[last.sprn], COUNTER_NEGATIVE_VAL)
             /\ env'.irq = env.irq + 1
             /\ env'.pmu_intr_timers[last.sprn] = NotPending]_vars

\* PMC6 written with 0x80000000 - 2 overflowed 2 ns later
C6_Witness ==
  /\ last.op = "timer_cb" /\ last.sprn = 6
  /\ last.prev.op = "store_pmc" /\ last.prev.sprn = 6 /\ ~last.prev.was_fc
  /\ last.prev.value = Sub64(COUNTER_NEGATIVE_VAL, U64(2))
  /\ last.at = Add64(last.prev.at, U64(2))
  /\ env.irq = 1
  /\ Geq64(env.pmc[6], COUNTER_NEGATIVE_VAL)

(***************************************************************************)
(* C8  In every reachable state, update_cycles_PMCs run twice at the same  *)
(* virtual time leaves every counter as the first run left it.             *)
(***************************************************************************)
C8_FlushIdempotent ==
  update_cycles_PMCs(update_cycles_PMCs(env, now), now).pmc
    = update_cycles_PMCs(env, now).pmc

(***************************************************************************)
(* C9  helper_store_pmc(sprn, v) with MMCR0[FC] clear leaves v in the      *)
(* counter and pmu_base_time at the time of the write; the next flush, at  *)
(* t, adds t minus the time of the write to a cycle-counting written       *)
(* counter whose group runs, and nothing when its group is frozen.         *)
(***************************************************************************)
C9_Flushes(c) ==
  \/ /\ StepIs("store_mmcr0") /\ "FC" \notin env.mmcr0
     /\ \/ "FC" \in env'.mmcr0
        \/ ("PMC1CE" \in env.mmcr0) # ("PMC1CE" \in env'.mmcr0)
        \/ ("PMCjCE" \in env.mmcr0) # ("PMCjCE" \in env'.mmcr0)
  \/ StepIs("store_pmc") /\ "FC" \notin env.mmcr0 /\ last'.sprn # c
  \/ env'.irq # env.irq

C9_WriteWhileRunning ==
  [][/\ (StepIs("store_pmc") /\ "FC" \notin env.mmcr0)
          => /\ env'.pmc[last'.sprn] = last'.value
             /\ env'.pmu_base_time = now
     /\ (/\ last.op = "store_pmc" /\ ~last.was_fc
         /\ CycleCounting(env, last.sprn)
         /\ C9_Flushes(last.sprn))
          => env'.pmc[last.sprn]
               = IF GroupFrozen(env'.mmcr0, last.sprn)
                   THEN last.value
                   ELSE Add64(last.value, Sub64(now, last.at))]_vars

\* PMC6 written at t = 100 after 100 ns of counting, the PMU frozen at t = 200
C9_Witness ==
  /\ last.op = "store_mmcr0" /\ ~last.was_fc /\ "FC" \in env.mmcr0
  /\ last.prev.op = "store_pmc" /\ ~last.prev.was_fc /\ last.prev.sprn = 6
  /\ last.prev.at = U64(100)
  /\ last.at = U64(200)
  /\ "FC56" \notin env.mmcr0
  /\ env.pmc[6] = Add64(last.prev.value, U64(100))

(***************************************************************************)
(* C10  helper_store_pmc(sprn, v) with MMCR0[FC] set changes the written   *)
(* counter to v and nothing else: not another counter, MMCR0,              *)
(* pmu_base_time or any overflow timer.                                    *)
(***************************************************************************)
C10_WriteWhileFrozen ==
  [][(StepIs("store_pmc") /\ "FC" \in env.mmcr0)
       => env' = [env EXCEPT !.pmc[last'.sprn] = last'.value]]_vars

\* a write in a frozen PMU that still has a timer pending
C10_Witness ==
  /\ last.op = "store_pmc" /\ last.was_fc
  /\ "FC" \in env.mmcr0
  /\ env.pmc[last.sprn] = last.value
  /\ \E i \in TimerPMCs : env.pmu_intr_timers[i] # NotPending


(***************************************************************************)
(* Single-timer helper with stall events                                   *)
(* (src/target/ppc/pmu_book3s_helper.c)                                    *)
(***************************************************************************)
b3s_cpu_ppc_pmu_timer_init ==
  [mmcr0 |-> {},
   mmcr1 |-> <<0, 0, 0, 0>>,
   pmc |-> [s \in PMCs |-> U64(0)],
   pmu_base_time |-> U64(0),
   pmu_intr_timer |-> NotPending,
   irq |-> 0]

b3s_get_cycles(time_delta) == time_delta

b3s_get_PMC_event(e, sprn) ==
  CASE sprn \in 1 .. 3 -> e.mmcr1[sprn]
    [] sprn = 4 -> IF e.mmcr1[4] = 250 THEN 2 ELSE e.mmcr1[4]
    [] sprn = 5 -> 2
    [] sprn = 6 -> 30
    [] OTHER -> 0

b3s_update_PMC_PM_CYC(v, time_delta) == Add64(v, b3s_get_cycles(time_delta))

\* one ratio for every stall event
get_stall_ratio_flat(stall_event) ==
  CASE stall_event \in {10, 6, 22, 28} -> 5
    [] OTHER -> 0

get_stall_ratio(stall_event) ==
  CASE stall_event = 10 -> 25
    [] stall_event \in {6, 22, 28} -> 5
    [] OTHER -> 0

update_PMC_PM_STALL(v, icount_delta, stall_event) ==
  Add64(v, muldiv64(b3s_get_cycles(icount_delta),
                    get_stall_ratio(stall_event), 100))

\* the new value of a programmable counter
b3s_update_programmable_PMC_reg(e, sprn, icount_delta) ==
  LET event == b3s_get_PMC_event(e, sprn)
  IN  CASE event = 2 -> e.pmc[sprn]
        [] event = 30 -> b3s_update_PMC_PM_CYC(e.pmc[sprn], icount_delta)
        [] event \in {10, 6, 22, 28} ->
             update_PMC_PM_STALL(e.pmc[sprn], icount_delta, event)
        [] OTHER -> e.pmc[sprn]

update_PMCs(e, time_delta) ==
  LET PMC14_running == "FC14" \notin e.mmcr0
      PMC56_running == "FC56" \notin e.mmcr0
  IN  [e EXCEPT
         !.pmc = [s \in PMCs |->
                    IF s \in ProgrammablePMCs /\ PMC14_running
                      THEN b3s_update_programmable_PMC_reg(e, s, time_delta)
                    ELSE IF s = 6 /\ PMC56_running
                      THEN b3s_update_PMC_PM_CYC(e.pmc[6], time_delta)
                    ELSE e.pmc[s]]]

b3s_get_CYC_timeout(e, sprn) ==
  IF Geq64(e.pmc[sprn], COUNTER_NEGATIVE_VAL)
    THEN U64(0)
    ELSE Sub64(COUNTER_NEGATIVE_VAL, e.pmc[sprn])

\* muldiv64(cycles, NANOSECONDS_PER_SECOND, PPC_CPU_FREQ), both 10^9 = 1000^3:
\* the 128-bit product, then the division
cycles_to_ns(cyc) ==
  SubSeq(DivWide(DivWide(DivWide(
           MulWide(MulWide(MulWide(Wide(cyc), 1000), 1000), 1000),
           1000), 1000), 1000), 1, 4)

\* the remaining cycles taken as the duration, the stall rate left out
get_stall_timeout_unscaled(e, sprn, stall_event) ==
  IF Geq64(e.pmc[sprn], COUNTER_NEGATIVE_VAL) THEN U64(0)
  ELSE cycles_to_ns(Sub64(COUNTER_NEGATIVE_VAL, e.pmc[sprn]))

get_stall_timeout(e, sprn, stall_event) ==
  IF Geq64(e.pmc[sprn], COUNTER_NEGATIVE_VAL) THEN U64(0)
  ELSE cycles_to_ns(Mul64(Sub64(COUNTER_NEGATIVE_VAL, e.pmc[sprn]),
                          100 \div get_stall_ratio(stall_event)))

b3s_pmc_counter_negative_enabled(e, sprn) ==
  LET PMC14_running == "FC14" \notin e.mmcr0
      PMC56_running == "FC56" \notin e.mmcr0
  IN  CASE sprn = 1 -> "PMC1CE" \in e.mmcr0 /\ PMC14_running
        [] sprn \in 2 .. 4 -> "PMCjCE" \in e.mmcr0 /\ PMC14_running
        [] sprn \in 5 .. 6 -> "PMCjCE" \in e.mmcr0 /\ PMC56_running
        [] OTHER -> FALSE

b3s_get_counter_neg_timeout(e, sprn) ==
  IF ~b3s_pmc_counter_negative_enabled(e, sprn) THEN MinusOne
  ELSE IF Geq64(e.pmc[sprn], COUNTER_NEGATIVE_VAL) THEN U64(0)
  ELSE IF sprn \in ProgrammablePMCs
    THEN CASE b3s_get_PMC_event(e, sprn) = 30 -> b3s_get_CYC_timeout(e, sprn)
           [] b3s_get_PMC_event(e, sprn) \in {10, 6, 22, 28} ->
                get_stall_timeout(e, sprn, b3s_get_PMC_event(e, sprn))
           [] OTHER -> MinusOne
  ELSE IF sprn = 6 THEN b3s_get_CYC_timeout(e, sprn)
  ELSE MinusOne

RECURSIVE excp_timeout(_, _, _)
\* the loop of set_PMU_excp_timer from counter i on, timeout the minimum so far
excp_timeout(e, i, timeout) ==
  IF i > 6 THEN timeout
  ELSE LET curr_timeout == b3s_get_counter_neg_timeout(e, i)
       IN  IF curr_timeout = MinusOne THEN excp_timeout(e, i + 1, timeout)
           ELSE IF curr_timeout = U64(0) THEN U64(0)
           ELSE IF timeout = MinusOne \/ Lt64(curr_timeout, timeout)
             THEN excp_timeout(e, i + 1, curr_timeout)
           ELSE excp_timeout(e, i + 1, timeout)

set_PMU_excp_timer(e, t) ==
  LET timeout == excp_timeout(e, 1, MinusOne)
  IN  IF timeout = MinusOne THEN e
      ELSE [e EXCEPT !.pmu_intr_timer = Add64(t, timeout)]

b3s_cpu_ppc_pmu_timer_cb(e, t) ==
  LET time_delta == Sub64(t, e.pmu_base_time)
  IN  IF "EBE" \notin e.mmcr0 THEN e
      ELSE
        LET e1 == update_PMCs(e, time_delta)
            e2 == IF "FCECE" \in e1.mmcr0
                    THEN [e1 EXCEPT !.mmcr0 = (@ \ {"FCECE"}) \cup {"FC"}]
                    ELSE e1
            e3 == IF "PMAE" \in e2.mmcr0
                    THEN [e2 EXCEPT !.mmcr0 = (@ \ {"PMAE"}) \cup {"PMAO"}]
                    ELSE e2
        IN  [e3 EXCEPT !.irq = @ + 1]

b3s_counter_negative_cond_enabled(mmcr0) ==
  "PMC1CE" \in mmcr0 \/ "PMCjCE" \in mmcr0

\* the unfreeze keeping the old pmu_base_time
b3s_helper_store_mmcr0_stale_base(e, t, value) ==
  LET curr_FC == "FC" \in e.mmcr0
      new_FC == "FC" \in value
      e1 == [e EXCEPT !.mmcr0 = value]
  IN  IF curr_FC = new_FC THEN e1
      ELSE IF ~curr_FC
        THEN [update_PMCs(e1, Sub64(t, e.pmu_base_time))
                EXCEPT !.pmu_intr_timer = NotPending]
      ELSE IF b3s_counter_negative_cond_enabled(e1.mmcr0)
        THEN set_PMU_excp_timer(e1, t)
        ELSE e1

b3s_helper_store_mmcr0(e, t, value) ==
  LET curr_FC == "FC" \in e.mmcr0
      new_FC == "FC" \in value
      e1 == [e EXCEPT !.mmcr0 = value]
  IN  IF curr_FC = new_FC THEN e1
      ELSE IF ~curr_FC
        THEN [update_PMCs(e1, Sub64(t, e.pmu_base_time))
                EXCEPT !.pmu_intr_timer = NotPending]
      ELSE LET e2 == [e1 EXCEPT !.pmu_base_time = t]
           IN  IF b3s_counter_negative_cond_enabled(e2.mmcr0)
                 THEN set_PMU_excp_timer(e2, t)
                 ELSE e2

b3s_helper_store_pmc(e, t, sprn, value) ==
  IF "FC" \in e.mmcr0
    THEN [e EXCEPT !.pmc[sprn] = value]
    ELSE
      LET e1 == [update_PMCs(e, Sub64(t, e.pmu_base_time))
                   EXCEPT !.pmc[sprn] = value,
                          !.pmu_intr_timer = NotPending,
                          !.pmu_base_time = t]
      IN  IF b3s_counter_negative_cond_enabled(e1.mmcr0)
            THEN set_PMU_excp_timer(e1, t)
            ELSE e1

b3s_pmc_is_running(e, sprn) ==
  IF sprn < 5 THEN "FC14" \notin e.mmcr0 ELSE "FC56" \notin e.mmcr0

pmc_counting_insns(e, sprn) ==
  IF ~b3s_pmc_is_running(e, sprn) THEN FALSE
  ELSE IF sprn = 5 THEN TRUE
  ELSE CASE sprn = 1 -> b3s_get_PMC_event(e, sprn) \in {2, 242, 254}
         [] sprn \in 2 .. 3 -> b3s_get_PMC_event(e, sprn) = 2
         [] sprn = 4 -> b3s_get_PMC_event(e, sprn) \in {2, 250}
         [] OTHER -> FALSE

b3s_insns_overflow(e, sprn, num_insns) ==
  /\ sprn \in 1 .. 5
  /\ pmc_counting_insns(e, sprn)
  /\ Geq64(Add64(e.pmc[sprn], U64(num_insns)), COUNTER_NEGATIVE_VAL)
  /\ b3s_pmc_counter_negative_enabled(e, sprn)

\* the pending timer left in place when a batch overflows
b3s_helper_insns_inc_keep_timer(e, t, num_insns) ==
  LET e1 == [e EXCEPT !.pmc =
               [s \in PMCs |->
                  IF ~(s \in 1 .. 5 /\ pmc_counting_insns(e, s)) THEN e.pmc[s]
                  ELSE IF b3s_insns_overflow(e, s, num_insns)
                         THEN COUNTER_NEGATIVE_VAL
                         ELSE Add64(e.pmc[s], U64(num_insns))]]
  IN  IF \E s \in PMCs : b3s_insns_overflow(e, s, num_insns)
        THEN b3s_cpu_ppc_pmu_timer_cb(e1, t)
        ELSE e1

b3s_helper_insns_inc(e, t, num_insns) ==
  LET e1 == [e EXCEPT !.pmc =
               [s \in PMCs |->
                  IF ~(s \in 1 .. 5 /\ pmc_counting_insns(e, s)) THEN e.pmc[s]
                  ELSE IF b3s_insns_overflow(e, s, num_insns)
                         THEN COUNTER_NEGATIVE_VAL
                         ELSE Add64(e.pmc[s], U64(num_insns))]]
  IN  IF \E s \in PMCs : b3s_insns_overflow(e, s, num_insns)
        THEN b3s_cpu_ppc_pmu_timer_cb(
               [e1 EXCEPT !.pmu_intr_timer = NotPending], t)
        ELSE e1

(***************************************************************************)
(* The machine of the single-timer helper.  hist follows the freeze/       *)
(* unfreeze pairs: pmc0 the counters when the run of pairs began, unfrozen *)
(* the time spent unfrozen in the pairs completed since, pairs their       *)
(* number, clean whether nothing but MMCR0[FC] toggles happened since,     *)
(* since the time of the last unfreeze.                                    *)
(***************************************************************************)
B3S_MMCR0Values ==
  { {}, {"FC"}, {"FC14"},
    {"PMC1CE", "PMCjCE", "EBE"},
    {"PMCjCE", "EBE", "FCECE", "PMAE"} }

B3S_MMCR1Values == { <<10, 6, 30, 2>>, <<22, 28, 10, 250>> }

B3S_WrittenPMCs == {1, 5, 6}

B3S_PMCValues ==
  { Sub64(COUNTER_NEGATIVE_VAL, U64(2)), Add64(COUNTER_NEGATIVE_VAL, U64(1)) }

B3S_InsnBatches == {5}

B3S_TickSizes == {2, 400}

HistStart(e, t) ==
  [clean |-> TRUE, pmc0 |-> e.pmc, unfrozen |-> U64(0), pairs |-> 0,
   since |-> t]

\* hist after a handler that took the registers from e to e2 at time t;
\* toggle: the handler was a MMCR0 write that changed FC and neither FC14 nor
\* FC56
HistAfter(h, e, e2, t, toggle) ==
  IF toggle /\ h.clean
    THEN IF "FC" \in e2.mmcr0
           THEN [h EXCEPT !.unfrozen = Add64(@, Sub64(t, h.since)),
                          !.pairs = @ + 1]
           ELSE [h EXCEPT !.since = t]
  ELSE IF "FC" \in e2.mmcr0 \/ e2.pmu_base_time = t
    THEN HistStart(e2, t)
  ELSE [h EXCEPT !.clean = FALSE]

IsToggle(e, value) ==
  /\ ("FC" \in e.mmcr0) # ("FC" \in value)
  /\ ("FC14" \in e.mmcr0) = ("FC14" \in value)
  /\ ("FC56" \in e.mmcr0) = ("FC56" \in value)

InitB3S ==
  /\ env = b3s_cpu_ppc_pmu_timer_init
  /\ now = U64(0)
  /\ last = NoOp
  /\ ops = 0
  /\ ticks = 0
  /\ hist = HistStart(b3s_cpu_ppc_pmu_timer_init, U64(0))

B3S_Tick ==
  /\ ticks < MaxTicks
  /\ \E d \in B3S_TickSizes :
       /\ env.pmu_intr_timer # NotPending =>
            Leq64(Add64(now, U64(d)), env.pmu_intr_timer)
       /\ now' = Add64(now, U64(d))
  /\ ticks' = ticks + 1
  /\ UNCHANGED <<env, last, ops, hist>>

B3S_TickToDeadline ==
  /\ ticks < MaxTicks
  /\ env.pmu_intr_timer # NotPending
  /\ Lt64(now, env.pmu_intr_timer)
  /\ now' = env.pmu_intr_timer
  /\ ticks' = ticks + 1
  /\ UNCHANGED <<env, last, ops, hist>>

\* the timer expires: it leaves the active list, then the callback runs
B3S_TimerCb ==
  /\ ops < MaxOpsB3S
  /\ env.pmu_intr_timer # NotPending
  /\ Leq64(env.pmu_intr_timer, now)
  /\ env' = b3s_cpu_ppc_pmu_timer_cb(
              [env EXCEPT !.pmu_intr_timer = NotPending], now)
  /\ last' = Handler("timer_cb", 0, U64(0), {}, 0)
  /\ hist' = HistAfter(hist, env, env', now, FALSE)
  /\ ops' = ops + 1
  /\ UNCHANGED <<now, ticks>>

B3S_StoreMMCR0 ==
  /\ ops < MaxOpsB3S
  /\ \E value \in B3S_MMCR0Values :
       /\ env' = b3s_helper_store_mmcr0(env, now, value)
       /\ last' = Handler("store_mmcr0", 0, U64(0), value, 0)
       /\ hist' = HistAfter(hist, env, env', now, IsToggle(env, value))
  /\ ops' = ops + 1
  /\ UNCHANGED <<now, ticks>>

\* the helper has no MMCR1 handler: the write is a plain register store
B3S_StoreMMCR1 ==
  /\ ops < MaxOpsB3S
  /\ \E value \in B3S_MMCR1Values : env' = [env EXCEPT !.mmcr1 = value]
  /\ last' = Handler("store_mmcr1", 0, U64(0), {}, 0)
  /\ hist' = HistAfter(hist, env, env', now, FALSE)
  /\ ops' = ops + 1
  /\ UNCHANGED <<now, ticks>>

B3S_StorePMC ==
  /\ ops < MaxOpsB3S
  /\ \E sprn \in B3S_WrittenPMCs, value \in B3S_PMCValues :
       /\ env' = b3s_helper_store_pmc(env, now, sprn, value)
       /\ last' = Handler("store_pmc", sprn, value, {}, 0)
  /\ hist' = HistAfter(hist, env, env', now, FALSE)
  /\ ops' = ops + 1
  /\ UNCHANGED <<now, ticks>>

B3S_InsnsInc ==
  /\ ops < MaxOpsB3S
  /\ \E n \in B3S_InsnBatches :
       /\ env' = b3s_helper_insns_inc(env, now, n)
       /\ last' = Handler("insns_inc", 0, U64(0), {}, n)
  /\ hist' = [hist EXCEPT !.clean = FALSE]
  /\ ops' = ops + 1
  /\ UNCHANGED <<now, ticks>>

NextB3S ==
  \/ B3S_Tick
  \/ B3S_TickToDeadline
  \/ B3S_TimerCb
  \/ B3S_StoreMMCR0
  \/ B3S_StoreMMCR1
  \/ B3S_StorePMC
  \/ B3S_InsnsInc

SpecB3S == InitB3S /\ [][NextB3S]_vars

(***************************************************************************)
(* Vocabulary of the properties of the single-timer helper.                *)
(***************************************************************************)
StallEvents == {10, 6, 22, 28}

\* the step flushes the counters of a running PMU: a freeze, a counter
\* write, an overflow
B3S_Flushes ==
  /\ "FC" \notin env.mmcr0
  /\ \/ StepIs("store_mmcr0") /\ "FC" \in env'.mmcr0
     \/ StepIs("store_pmc")
     \/ env'.irq # env.irq

\* x is floor(elapsed * ratio / 100)
IsStallShare(x, elapsed, ratio) ==
  /\ Leq64(Mul64(x, 100), Mul64(elapsed, ratio))
  /\ Lt64(Mul64(elapsed, ratio), Mul64(Add64(x, U64(1)), 100))

(***************************************************************************)
(* C5  At a flush of a running PMU, a counter PMC1-4 selected with a stall *)
(* event, its group not frozen, advances by                                *)
(* floor(elapsed_ns * ratio / 100), elapsed_ns the time since              *)
(* pmu_base_time, ratio 25 for event 0x0A and 5 for 0x06, 0x16 and 0x1C.   *)
(***************************************************************************)
C5_StallShareAtFlush ==
  [][B3S_Flushes
       => \A c \in ProgrammablePMCs :
            (/\ b3s_get_PMC_event(env, c) \in StallEvents
             /\ ~GroupFrozen(env.mmcr0, c)
             /\ ~GroupFrozen(env'.mmcr0, c)
             /\ ~(StepIs("store_pmc") /\ last'.sprn = c))
              => IsStallShare(Sub64(env'.pmc[c], env.pmc[c]),
                              Sub64(now, env.pmu_base_time),
                              IF b3s_get_PMC_event(env, c) = 10
                                THEN 25 ELSE 5)]_vars

\* PMC1 selected with 0x0A at t = 0, the PMU frozen 400 ns later
C5_Witness ==
  /\ last.op = "store_mmcr0" /\ ~last.was_fc /\ "FC" \in env.mmcr0
  /\ last.prev.op = "store_mmcr1" /\ last.prev.at = U64(0)
  /\ last.at = U64(400)
  /\ env.mmcr1[1] = 10 /\ env.mmcr1[2] = 6
  /\ env.pmc[1] = U64(100)
  /\ env.pmc[2] = U64(20)

\* the counter gained over the pairs what one pair of the same total
\* duration gives: the duration for cycles, its truncated share for stalls
C7_AsOnePair(c) ==
  IF b3s_get_PMC_event(env, c) = 30
    THEN env.pmc[c] = Add64(hist.pmc0[c], hist.unfrozen)
    ELSE env.pmc[c]
           = Add64(hist.pmc0[c],
                   muldiv64(hist.unfrozen,
                            get_stall_ratio(b3s_get_PMC_event(env, c)), 100))

C7_Counted(c) ==
  /\ c \in ProgrammablePMCs \cup {6}
  /\ b3s_get_PMC_event(env, c) \in StallEvents \cup {30}
  /\ ~GroupFrozen(env.mmcr0, c)

C7_AfterPairs == hist.clean /\ "FC" \in env.mmcr0 /\ hist.pairs >= 1

C11_RearmFromFlushedValue ==
  [][(/\ StepIs("store_mmcr0")
      /\ "FC" \notin env.mmcr0
      /\ "FC" \notin env'.mmcr0)
       => \A c \in TimerPMCs :
            (/\ CycleCounting(env, c)
             /\ ~GroupFrozen(env'.mmcr0, c)
             /\ ~NotificationOn(env.mmcr0, c)
             /\ NotificationOn(env'.mmcr0, c))
              => /\ ~GroupFrozen(env.mmcr0, c)
                      => env'.pmc[c]
                           = Add64(env.pmc[c], Sub64(now, env.pmu_base_time))
                 /\ Lt64(env'.pmc[c], COUNTER_NEGATIVE_VAL)
                      => env'.pmu_intr_timers[c]
                           = Add64(now, Sub64(COUNTER_NEGATIVE_VAL,
                                              env'.pmc[c]))]_vars

\* PMCjCE cleared at t = 0 and set again at t = 100: PMC6 reads 100 and its
\* timer is due 0x80000000 - 100 ns later
C11_Witness ==
  /\ last.op = "store_mmcr0" /\ last.prev.op = "store_mmcr0"
  /\ "PMCjCE" \in last.prev.was_mmcr0
  /\ "PMCjCE" \notin last.was_mmcr0
  /\ "PMCjCE" \in env.mmcr0
  /\ "FC" \notin last.prev.was_mmcr0 \cup last.was_mmcr0 \cup env.mmcr0
  /\ "FC56" \notin last.was_mmcr0 \cup env.mmcr0
  /\ last.prev.at = U64(0)
  /\ last.at = U64(100)
  /\ env.pmc[6] = U64(100)
  /\ env.pmu_intr_timers[6]
       = Add64(U64(100), Sub64(COUNTER_NEGATIVE_VAL, U64(100)))

\* the event type the selection code sel stands for on counter c, a code
\* that is not valid for the counter standing for no event
C12_Resolved(c, sel) ==
  CASE sel = 2 -> "INSTRUCTIONS"
    [] sel = 30 -> "CYCLES"
    [] sel = 240 /\ c = 1 -> "CYCLES"
    [] sel = 254 /\ c = 1 -> "INSTRUCTIONS"
    [] sel = 250 /\ c = 4 -> "INSN_RUN_LATCH"
    [] OTHER -> "INVALID"

(***************************************************************************)
(* C12  After any sequence of helper_store_mmcr1 writes the event type of  *)
(* each counter PMC1-4 is the one its current selection code stands for on *)
(* that counter, PMU_EVENT_INVALID for a code that is not valid for it.    *)
(***************************************************************************)
C12_EventFromCurrentCode ==
  \A c \in ProgrammablePMCs :
    env.pmu_events[c] = C12_Resolved(c, env.mmcr1[c])

(***************************************************************************)
(* C13  In every reachable state counter 5 is resolved to                  *)
(* PMU_EVENT_INSTRUCTIONS and counter 6 to PMU_EVENT_CYCLES, whatever was  *)
(* written to MMCR1, MMCR0 and the counters.                               *)
(***************************************************************************)
C13_HardWiredEvents ==
  /\ env.pmu_events[5] = "INSTRUCTIONS"
  /\ env.pmu_events[6] = "CYCLES"

\* MMCR1 was written and gave PMC1-4 their events
C13_Witness ==
  /\ last.op = "store_mmcr1"
  /\ env.pmu_events[1] = "CYCLES"
  /\ env.pmu_events[2] = "INSTRUCTIONS"
  /\ env.pmu_events[4] = "INSN_RUN_LATCH"
  /\ env.pmu_events[5] = "INSTRUCTIONS"
  /\ env.pmu_events[6] = "CYCLES"

\* the counters as a freeze of the PMU at time t would leave them
FrozenAt(e, t) == helper_store_mmcr0(e, t, e.mmcr0 \cup {"FC"}).pmc

(***************************************************************************)
(* C14  When helper_store_mmcr1 switches a counter PMC1-4 of a running     *)
(* group between a cycle event and another event at time t in a running    *)
(* PMU, the time from pmu_base_time to t is credited by the event selected *)
(* before the write: frozen right after the write, a counter switched away *)
(* from cycles reads its value plus that time, a counter switched to       *)
(* cycles reads its value.                                                 *)
(***************************************************************************)
C14_CreditByPreviousEvent ==
  [][(StepIs("store_mmcr1") /\ "FC" \notin env.mmcr0)
       => \A c \in ProgrammablePMCs :
            (/\ ~GroupFrozen(env.mmcr0, c)
             /\ CycleCounting(env, c) # CycleCounting(env', c))
              => FrozenAt(env', now)[c]
                   = IF CycleCounting(env, c)
                       THEN Add64(env.pmc[c], Sub64(now, env.pmu_base_time))
                       ELSE env.pmc[c]]_vars

\* counter c counts instructions and its group runs
C15_Counting(c) ==
  /\ c \in 1 .. 5
  /\ ~GroupFrozen(env.mmcr0, c)
  /\ env.pmu_events[c] \in {"INSTRUCTIONS", "INSN_RUN_LATCH"}

\* the value a batch of n brings counter c to
C15_Sum(c, n) ==
  IF \/ env.pmu_events[c] = "INSTRUCTIONS"
     \/ env.pmu_events[c] = "INSN_RUN_LATCH" /\ env.ctrl_run
    THEN Add64(env.pmc[c], U64(n))
    ELSE env.pmc[c]

C15_Overflows(c, n) ==
  /\ C15_Counting(c)
  /\ NotificationOn(env.mmcr0, c)
  /\ Geq64(C15_Sum(c, n), COUNTER_NEGATIVE_VAL)

(***************************************************************************)
(* C15  helper_insns_inc(N) leaves a running instruction counter that the  *)
(* batch brings to 0x80000000 or above, its notification bit set, at       *)
(* exactly 0x80000000 and runs the overflow handler in the same call (with *)
(* MMCR0[EBE] set the PMC interrupt is raised); with the notification bit  *)
(* clear the counter keeps the sum, and the handler runs only for a        *)
(* counter that overflowed with its bit set.                               *)
(***************************************************************************)
C15_ClampAtOverflow ==
  [][StepIs("insns_inc")
       => /\ \A c \in PMCs :
               /\ C15_Overflows(c, last'.n)
                    => /\ env'.pmc[c] = COUNTER_NEGATIVE_VAL
                       /\ "EBE" \in env.mmcr0 => env'.irq = env.irq + 1
               /\ (C15_Counting(c) /\ ~NotificationOn(env.mmcr0, c))
                    => env'.pmc[c] = C15_Sum(c, last'.n)
          /\ env'.irq # env.irq
               => \E c \in PMCs : C15_Overflows(c, last'.n)]_vars

\* PMC5 written with 0x80000000 - 2, PMCjCE and EBE set, then a batch
C15_Witness ==
  /\ last.op = "insns_inc"
  /\ last.prev.op = "store_pmc" /\ last.prev.sprn = 5
  /\ last.prev.value = Sub64(COUNTER_NEGATIVE_VAL, U64(2))
  /\ {"PMCjCE", "EBE"} \subseteq last.was_mmcr0
  /\ "FC56" \notin last.was_mmcr0
  /\ env.pmc[5] = COUNTER_NEGATIVE_VAL
  /\ env.irq = 1

\* the same in the single-timer helper (pmu_book3s_helper.c), checked
\* under SpecB3S
C15_B3S_ClampAtOverflow ==
  [][StepIs("insns_inc")
       => /\ \A c \in 1 .. 5 :
               pmc_counting_insns(env, c)
                 => IF /\ NotificationOn(env.mmcr0, c)
                       /\ Geq64(Add64(env.pmc[c], U64(last'.n)),
                                COUNTER_NEGATIVE_VAL)
                      THEN /\ env'.pmc[c] = COUNTER_NEGATIVE_VAL
                           /\ "EBE" \in env.mmcr0 => env'.irq = env.irq + 1
                      ELSE env'.pmc[c] = Add64(env.pmc[c], U64(last'.n))
          /\ env'.irq # env.irq
               => \E c \in 1 .. 5 :
                    /\ pmc_counting_insns(env, c)
                    /\ NotificationOn(env.mmcr0, c)
                    /\ Geq64(Add64(env.pmc[c], U64(last'.n)),
                             COUNTER_NEGATIVE_VAL)]_vars

C15_B3S_Witness ==
  /\ last.op = "insns_inc"
  /\ last.prev.op = "store_pmc" /\ last.prev.sprn = 5
  /\ {"PMCjCE", "EBE"} \subseteq last.was_mmcr0
  /\ env.pmc[5] = COUNTER_NEGATIVE_VAL
  /\ env.irq = 1

(***************************************************************************)
(* C16  A MMCR0 write at time t, MMCR0[FC] clear before and after it, that *)
(* sets FC14 (or FC56) credits the cycle counters of the group with the    *)
(* time elapsed up to t, and a later write that clears the bit credits     *)
(* them with none of the time the bit was set: frozen right after the      *)
(* first write such a counter reads its value plus the time since          *)
(* pmu_base_time, frozen right after the second it reads its value.        *)
(***************************************************************************)
C16_GroupFreezeAtWrite ==
  [][(/\ StepIs("store_mmcr0")
      /\ "FC" \notin env.mmcr0
      /\ "FC" \notin env'.mmcr0)
       => \A c \in TimerPMCs :
            CycleCounting(env, c)
              => /\ (~GroupFrozen(env.mmcr0, c) /\ GroupFrozen(env'.mmcr0, c))
                      => FrozenAt(env', now)[c]
                           = Add64(env.pmc[c], Sub64(now, env.pmu_base_time))
                 /\ (GroupFrozen(env.mmcr0, c) /\ ~GroupFrozen(env'.mmcr0, c))
                      => FrozenAt(env', now)[c] = env.pmc[c]]_vars

\* counter c of the single-timer helper counts a time-based event (cycles
\* or a stall), its group runs and its notification bit is set in mmcr0
C17_TimedCounter(mmcr0, c) ==
  /\ c \in ProgrammablePMCs \cup {6}
  /\ b3s_get_PMC_event(env, c) \in StallEvents \cup {30}
  /\ ~GroupFrozen(mmcr0, c)
  /\ NotificationOn(mmcr0, c)

(***************************************************************************)
(* C17  In pmu_book3s_helper.c a helper_store_mmcr0 write, MMCR0[FC] clear *)
(* before and after it, that sets PMC1CE or PMCjCE leaves the overflow     *)
(* timer pending when a running cycle or stall counter has its             *)
(* notification now enabled, and a write that clears both bits leaves the  *)
(* timer not pending.                                                      *)
(***************************************************************************)
C17_NotificationArmsTimer ==
  [][(/\ StepIs("store_mmcr0")
      /\ "FC" \notin env.mmcr0
      /\ "FC" \notin env'.mmcr0)
       => /\ (/\ \E b \in {"PMC1CE", "PMCjCE"} :
                    b \notin env.mmcr0 /\ b \in env'.mmcr0
              /\ \E c \in PMCs :
                    /\ C17_TimedCounter(env'.mmcr0, c)
                    /\ ~NotificationOn(env.mmcr0, c))
               => env'.pmu_intr_timer # NotPending
          /\ (/\ b3s_counter_negative_cond_enabled(env.mmcr0)
              /\ ~b3s_counter_negative_cond_enabled(env'.mmcr0))
               => env'.pmu_intr_timer = NotPending]_vars

(***************************************************************************)
(* C18  When helper_store_mmcr1 takes a counter PMC1-4 away from a cycle   *)
(* event in a running PMU, the overflow timer of that counter is not       *)
(* pending after the write.                                                *)
(***************************************************************************)
C18_SelectionChangeCancelsTimer ==
  [][(StepIs("store_mmcr1") /\ "FC" \notin env.mmcr0)
       => \A c \in ProgrammablePMCs :
            (CycleCounting(env, c) /\ ~CycleCounting(env', c))
              => env'.pmu_intr_timers[c] = NotPending]_vars

\* the step runs fire_PMC_interrupt: a timer callback, or a batch of
\* instructions that overflows a counter
OverflowFires ==
  \/ StepIs("timer_cb")
  \/ StepIs("insns_inc") /\ \E c \in PMCs : C15_Overflows(c, last'.n)

\* what fire_PMC_interrupt leaves when it finds EBE and FCECE set: the PMU
\* frozen, no timer pending, the cycle counters of the running groups
\* credited once with the time they counted since pmu_base_time (none when
\* the PMU was already frozen)
C19_FrozenByFire ==
  /\ "FC" \in env'.mmcr0
  /\ "FCECE" \notin env'.mmcr0
  /\ \A i \in TimerPMCs : env'.pmu_intr_timers[i] = NotPending
  /\ \A c \in TimerPMCs :
       (CycleCounting(env, c) /\ ~GroupFrozen(env.mmcr0, c))
         => env'.pmc[c]
              = Add64(env.pmc[c],
                      IF "FC" \in env.mmcr0
                        THEN U64(0)
                        ELSE Sub64(now, env.pmu_base_time))

(***************************************************************************)
(* C19  When fire_PMC_interrupt runs with MMCR0[EBE] and MMCR0[FCECE] set, *)
(* it returns with MMCR0[FC] set, MMCR0[FCECE] clear, no overflow timer    *)
(* pending and the cycle counters credited exactly once with the time      *)
(* elapsed up to the fire.                                                 *)
(***************************************************************************)
C19_FreezeOnOverflow ==
  [][(OverflowFires /\ {"EBE", "FCECE"} \subseteq env.mmcr0)
       => C19_FrozenByFire]_vars

\* the same for the fires that find the PMU running
C19_FreezeOnOverflowRunning ==
  [][(/\ OverflowFires
      /\ {"EBE", "FCECE"} \subseteq env.mmcr0
      /\ "FC" \notin env.mmcr0)
       => C19_FrozenByFire]_vars

(***************************************************************************)
(* C20  The PMC interrupt is raised only by an overflow fire (timer        *)
(* callback or instruction overflow) that finds MMCR0[EBE] set; a fire     *)
(* that finds MMCR0[EBE] clear raises no interrupt and leaves MMCR0,       *)
(* pmu_base_time and the cycle counters unchanged.                         *)
(***************************************************************************)
C20_InterruptNeedsEBE ==
  [][/\ env'.irq # env.irq => (OverflowFires /\ "EBE" \in env.mmcr0)
     /\ (OverflowFires /\ "EBE" \notin env.mmcr0)
          => /\ env'.irq = env.irq
             /\ env'.mmcr0 = env.mmcr0
             /\ env'.pmu_base_time = env.pmu_base_time
             /\ \A c \in TimerPMCs :
                  CycleCounting(env, c) => env'.pmc[c] = env.pmc[c]]_vars

\* a deadline timer has just fired with MMCR0[EBE] clear, while PMC6 counts
\* cycles in a running PMU, after time has passed since pmu_base_time
C20_Witness ==
  /\ last.op = "timer_cb"
  /\ "EBE" \notin last.was_mmcr0
  /\ "FC" \notin last.was_mmcr0
  /\ CycleCounting(env, 6)
  /\ Lt64(env.pmu_base_time, now)
  /\ env.irq = 0

\* the step starts a cycle count session, which re-arms the timers: an
\* unfreeze, a change of the notification bits or a counter write in a
\* running PMU
StartsSession ==
  \/ /\ StepIs("store_mmcr0")
     /\ "FC" \notin env'.mmcr0
     /\ \/ "FC" \in env.mmcr0
        \/ ("PMC1CE" \in env.mmcr0) # ("PMC1CE" \in env'.mmcr0)
        \/ ("PMCjCE" \in env.mmcr0) # ("PMCjCE" \in env'.mmcr0)
  \/ StepIs("store_pmc") /\ "FC" \notin env.mmcr0

(***************************************************************************)
(* C21  When the overflow timers are (re)armed, a running cycle-counting   *)
(* counter with notification enabled whose value is already >= 0x80000000  *)
(* gets duration zero: its timer is armed at the current virtual time,     *)
(* never at a negative or wrapped-around offset.                           *)
(***************************************************************************)
C21_OverflowedArmedNow ==
  [][StartsSession
       => \A c \in TimerPMCs :
            (/\ CycleCounting(env', c)
             /\ ~GroupFrozen(env'.mmcr0, c)
             /\ NotificationOn(env'.mmcr0, c)
             /\ Geq64(env'.pmc[c], COUNTER_NEGATIVE_VAL))
              => env'.pmu_intr_timers[c] = now]_vars

\* after time has passed, PMC6 written with a value over the threshold in a
\* running PMU with PMCjCE set: its timer is due at once
C21_Witness ==
  /\ last.op = "store_pmc" /\ last.sprn = 6
  /\ ~last.was_fc
  /\ "PMCjCE" \in env.mmcr0 /\ "FC56" \notin env.mmcr0
  /\ Lt64(COUNTER_NEGATIVE_VAL, env.pmc[6])
  /\ Lt64(U64(0), now)
  /\ env.pmu_intr_timers[6] = now

\* the same in the single-timer helper: a counter write or an unfreeze that
\* finds a running cycle-counting counter with notification enabled over the
\* threshold arms the timer at the current time
C21_B3S_OverflowedArmedNow ==
  [][(\/ /\ StepIs("store_mmcr0")
         /\ "FC" \in env.mmcr0 /\ "FC" \notin env'.mmcr0
      \/ StepIs("store_pmc") /\ "FC" \notin env.mmcr0)
       => \A c \in {3, 6} :
            (/\ b3s_get_PMC_event(env', c) = 30
             /\ b3s_pmc_counter_negative_enabled(env', c)
             /\ Geq64(env'.pmc[c], COUNTER_NEGATIVE_VAL))
              => env'.pmu_intr_timer = now]_vars

C21_B3S_Witness ==
  /\ last.op = "store_pmc" /\ last.sprn = 6
  /\ ~last.was_fc
  /\ b3s_pmc_counter_negative_enabled(env, 6)
  /\ Lt64(COUNTER_NEGATIVE_VAL, env.pmc[6])
  /\ Lt64(U64(0), now)
  /\ env.pmu_intr_timer = now

\* PMC6 was written in a running PMU by the last handler, or by the one
\* before it with the PMU left running by the last one (a MMCR0 write, a
\* write of another counter, an instruction batch or a timer fire), FC56
\* clear all along
C22_WrittenAt(t0, v) ==
  /\ "FC" \notin env.mmcr0
  /\ "FC56" \notin last.was_mmcr0 \cup env.mmcr0 \cup env'.mmcr0
  /\ \/ /\ last.op = "store_pmc" /\ last.sprn = 6 /\ ~last.was_fc
        /\ t0 = last.at /\ v = last.value
     \/ /\ last.prev.op = "store_pmc" /\ last.prev.sprn = 6
        /\ ~last.prev.was_fc /\ ~last.was_fc
        /\ "FC56" \notin last.prev.was_mmcr0
        /\ \/ last.op \in {"store_mmcr0", "insns_inc", "timer_cb"}
           \/ last.op = "store_pmc" /\ last.sprn # 6
        /\ t0 = last.prev.at /\ v = last.prev.value

\* the same with nothing but MMCR0 writes and writes of other counters
\* between the write of PMC6 and the freeze
C22_WrittenAtNoFire(t0, v) ==
  /\ C22_WrittenAt(t0, v)
  /\ last.op \in {"store_mmcr0", "store_pmc"}

(***************************************************************************)
(* C22  In the single-timer helper, with MMCR1 and FC14/FC56 held fixed,   *)
(* a cycle-counting counter read while frozen equals its last written      *)
(* value plus the nanoseconds the PMU was unfrozen since that write, also  *)
(* when an overflow fire flushed in between without freezing: here for     *)
(* PMC6 at the step that freezes the PMU, the write being the last handler *)
(* or the one before it.                                                   *)
(***************************************************************************)
C22_CyclesCountedOnce ==
  [][\A v \in B3S_PMCValues, t0 \in {last.at, last.prev.at} :
       (C22_WrittenAt(t0, v) /\ "FC" \in env'.mmcr0)
         => env'.pmc[6] = Add64(v, Sub64(now, t0))]_vars

C22_CyclesCountedOnceNoFire ==
  [][\A v \in B3S_PMCValues, t0 \in {last.at, last.prev.at} :
       (C22_WrittenAtNoFire(t0, v) /\ "FC" \in env'.mmcr0)
         => env'.pmc[6] = Add64(v, Sub64(now, t0))]_vars

(***************************************************************************)
(* Instruction-count based helper (the PMU helper appended to              *)
(* src/tests/libqos/rtas.c).  Progress is the raw instruction count of the *)
(* execution loop, kept in now; the virtual clock that drives the timer is *)
(* icount_to_ns of it.  env has the fields of the single-timer helper,     *)
(* pmu_base_icount in place of pmu_base_time, and the icount shift the     *)
(* machine was started with.                                               *)
(***************************************************************************)
MaxOpsRTAS == 3

\* the shifts icount_to_ns may have been configured with
IcountShifts == {0, 3}

rtas_cpu_ppc_pmu_timer_init(shift) ==
  [mmcr0 |-> {},
   mmcr1 |-> <<0, 0, 0, 0>>,
   pmc |-> [s \in PMCs |-> U64(0)],
   pmu_base_icount |-> U64(0),
   pmu_intr_timer |-> NotPending,
   icount_time_shift |-> shift,
   irq |-> 0]

\* icount << icount_time_shift
icount_to_ns(e, icount) == Mul64(icount, 2 ^ e.icount_time_shift)

\* muldiv64(icount_to_ns(insns), PPC_CPU_FREQ, NANOSECONDS_PER_SECOND), both
\* 10^9
rtas_get_cycles(e, insns) == cycles_to_ns(icount_to_ns(e, insns))

\* the conversion of a uint64_t argument to a uint32_t parameter
Trunc32(a) == <<a[1], a[2], 0, 0>>

rtas_get_PMC_event(e, sprn) ==
  CASE sprn \in 1 .. 3 -> e.mmcr1[sprn]
    [] sprn = 4 -> IF e.mmcr1[4] = 250 THEN 2 ELSE e.mmcr1[4]
    [] sprn = 5 -> 2
    [] sprn = 6 -> 30
    [] OTHER -> 0

rtas_update_PMC_PM_INST_CMPL(v, insns) == Add64(v, insns)

rtas_update_PMC_PM_CYC(e, v, insns) == Add64(v, rtas_get_cycles(e, insns))

rtas_update_programmable_PMC_reg(e, sprn, insns) ==
  CASE rtas_get_PMC_event(e, sprn) = 2 ->
         rtas_update_PMC_PM_INST_CMPL(e.pmc[sprn], insns)
    [] rtas_get_PMC_event(e, sprn) = 30 ->
         rtas_update_PMC_PM_CYC(e, e.pmc[sprn], insns)
    [] OTHER -> e.pmc[sprn]

\* the callers pass a uint64_t; the parameter is a uint32_t
rtas_update_PMCs(e, insns64) ==
  LET insns == Trunc32(insns64)
  IN  [e EXCEPT
         !.pmc = [s \in PMCs |->
                    IF s \in ProgrammablePMCs
                      THEN rtas_update_programmable_PMC_reg(e, s, insns)
                    ELSE IF s = 5
                      THEN rtas_update_PMC_PM_INST_CMPL(e.pmc[5], insns)
                    ELSE rtas_update_PMC_PM_CYC(e, e.pmc[6], insns)]]

get_INST_CMPL_timeout(e, sprn) ==
  IF e.pmc[sprn] = U64(0) THEN icount_to_ns(e, COUNTER_NEGATIVE_VAL)
  ELSE IF Geq64(e.pmc[sprn], COUNTER_NEGATIVE_VAL) THEN U64(0)
  ELSE icount_to_ns(e, Sub64(COUNTER_NEGATIVE_VAL, e.pmc[sprn]))

rtas_get_CYC_timeout(e, sprn) ==
  IF e.pmc[sprn] = U64(0) THEN icount_to_ns(e, COUNTER_NEGATIVE_VAL)
  ELSE IF Geq64(e.pmc[sprn], COUNTER_NEGATIVE_VAL) THEN U64(0)
  ELSE cycles_to_ns(Sub64(COUNTER_NEGATIVE_VAL, e.pmc[sprn]))

rtas_pmc_counter_negative_enabled(e, sprn) ==
  CASE sprn = 1 -> "PMC1CE" \in e.mmcr0
    [] sprn \in 2 .. 6 -> "PMCjCE" \in e.mmcr0
    [] OTHER -> FALSE

rtas_get_counter_neg_timeout(e, sprn) ==
  IF ~rtas_pmc_counter_negative_enabled(e, sprn) THEN MinusOne
  ELSE IF Geq64(e.pmc[sprn], COUNTER_NEGATIVE_VAL) THEN U64(0)
  ELSE IF sprn \in ProgrammablePMCs
    THEN CASE rtas_get_PMC_event(e, sprn) = 2 ->
                get_INST_CMPL_timeout(e, sprn)
           [] rtas_get_PMC_event(e, sprn) = 30 -> rtas_get_CYC_timeout(e, sprn)
           [] OTHER -> MinusOne
  ELSE IF sprn = 5 THEN get_INST_CMPL_timeout(e, sprn)
  ELSE IF sprn = 6 THEN rtas_get_CYC_timeout(e, sprn)
  ELSE MinusOne

RECURSIVE rtas_excp_timeout(_, _, _)
\* the loop of set_PMU_excp_timer from counter i on, timeout the minimum so far
rtas_excp_timeout(e, i, timeout) ==
  IF i > 6 THEN timeout
  ELSE LET curr_timeout == rtas_get_counter_neg_timeout(e, i)
       IN  IF curr_timeout = MinusOne
             THEN rtas_excp_timeout(e, i + 1, timeout)
           ELSE IF curr_timeout = U64(0) THEN U64(0)
           ELSE IF timeout = MinusOne \/ Lt64(curr_timeout, timeout)
             THEN rtas_excp_timeout(e, i + 1, curr_timeout)
           ELSE rtas_excp_timeout(e, i + 1, timeout)

\* ns: qemu_clock_get_ns(QEMU_CLOCK_VIRTUAL)
rtas_set_PMU_excp_timer(e, ns) ==
  LET timeout == rtas_excp_timeout(e, 1, MinusOne)
  IN  IF timeout = MinusOne THEN e
      ELSE [e EXCEPT !.pmu_intr_timer = Add64(ns, timeout)]

rtas_cpu_ppc_pmu_timer_cb(e, icount) ==
  LET icount_delta == Sub64(icount, e.pmu_base_icount)
  IN  IF "EBE" \notin e.mmcr0 THEN e
      ELSE
        LET e1 == rtas_update_PMCs(e, icount_delta)
            e2 == IF "FCECE" \in e1.mmcr0
                    THEN [e1 EXCEPT !.mmcr0 = (@ \ {"FCECE"}) \cup {"FC"}]
                    ELSE e1
            e3 == IF "PMAE" \in e2.mmcr0
                    THEN [e2 EXCEPT !.mmcr0 = (@ \ {"PMAE"}) \cup {"PMAO"}]
                    ELSE e2
        IN  [e3 EXCEPT !.irq = @ + 1]

rtas_counter_negative_cond_enabled(mmcr0) ==
  "PMC1CE" \in mmcr0 \/ "PMCjCE" \in mmcr0

rtas_helper_store_mmcr0(e, curr_icount, value) ==
  LET curr_FC == "FC" \in e.mmcr0
      new_FC == "FC" \in value
      e1 == [e EXCEPT !.mmcr0 = value]
  IN  IF curr_FC = new_FC THEN e1
      ELSE IF ~curr_FC
        THEN LET insns == Sub64(Sub64(curr_icount, e.pmu_base_icount), U64(2))
             IN  [rtas_update_PMCs(e1, insns)
                    EXCEPT !.pmu_intr_timer = NotPending]
      ELSE LET e2 == [e1 EXCEPT !.pmu_base_icount = curr_icount]
           IN  IF rtas_counter_negative_cond_enabled(e2.mmcr0)
                 THEN rtas_set_PMU_excp_timer(e2,
                                              icount_to_ns(e2, curr_icount))
                 ELSE e2

rtas_helper_store_pmc(e, curr_icount, sprn, value) ==
  IF "FC" \in e.mmcr0
    THEN [e EXCEPT !.pmc[sprn] = value]
    ELSE
      LET e1 == [rtas_update_PMCs(e, Sub64(curr_icount, e.pmu_base_icount))
                   EXCEPT !.pmc[sprn] = value,
                          !.pmu_intr_timer = NotPending,
                          !.pmu_base_icount = curr_icount]
      IN  IF rtas_counter_negative_cond_enabled(e1.mmcr0)
            THEN rtas_set_PMU_excp_timer(e1, icount_to_ns(e1, curr_icount))
            ELSE e1

\* values written to MMCR0
RTAS_MMCR0Values ==
  { {}, {"FC"}, {"PMCjCE", "EBE"}, {"PMCjCE", "EBE", "FCECE"} }

\* values written to MMCR1: PMC1SEL .. PMC4SEL
RTAS_MMCR1Values == { <<2, 30, 0, 250>> }

RTAS_WrittenPMCs == {5, 6}

RTAS_PMCValues == { U64(0), Sub64(COUNTER_NEGATIVE_VAL, U64(2)) }

\* instructions executed in one step of the execution loop
RTAS_ExecSizes == {1, 3}

InitRTAS ==
  /\ \E shift \in IcountShifts : env = rtas_cpu_ppc_pmu_timer_init(shift)
  /\ now = U64(0)
  /\ last = NoOp
  /\ ops = 0
  /\ ticks = 0
  /\ hist = <<>>

\* instructions execute; the virtual clock never passes the expire time of
\* the pending timer
RTAS_Exec ==
  /\ ticks < MaxTicks
  /\ \E d \in RTAS_ExecSizes :
       /\ env.pmu_intr_timer # NotPending =>
            Leq64(icount_to_ns(env, Add64(now, U64(d))), env.pmu_intr_timer)
       /\ now' = Add64(now, U64(d))
  /\ ticks' = ticks + 1
  /\ UNCHANGED <<env, last, ops, hist>>

\* instructions execute until the virtual clock reaches the expire time
RTAS_ExecToDeadline ==
  /\ ticks < MaxTicks
  /\ env.pmu_intr_timer # NotPending
  /\ Lt64(icount_to_ns(env, now), env.pmu_intr_timer)
  /\ now' = muldiv64(Add64(env.pmu_intr_timer,
                           U64(2 ^ env.icount_time_shift - 1)),
                     1, 2 ^ env.icount_time_shift)
  /\ ticks' = ticks + 1
  /\ UNCHANGED <<env, last, ops, hist>>

\* the timer expires: it leaves the active list, then the callback runs
RTAS_TimerCb ==
  /\ ops < MaxOpsRTAS
  /\ env.pmu_intr_timer # NotPending
  /\ Leq64(env.pmu_intr_timer, icount_to_ns(env, now))
  /\ env' = rtas_cpu_ppc_pmu_timer_cb(
              [env EXCEPT !.pmu_intr_timer = NotPending], now)
  /\ last' = Handler("timer_cb", 0, U64(0), {}, 0)
  /\ ops' = ops + 1
  /\ UNCHANGED <<now, ticks, hist>>

RTAS_StoreMMCR0 ==
  /\ ops < MaxOpsRTAS
  /\ \E value \in RTAS_MMCR0Values :
       /\ env' = rtas_helper_store_mmcr0(env, now, value)
       /\ last' = Handler("store_mmcr0", 0, U64(0), value, 0)
  /\ ops' = ops + 1
  /\ UNCHANGED <<now, ticks, hist>>

\* the helper has no MMCR1 handler: the write is a plain register store
RTAS_StoreMMCR1 ==
  /\ ops < MaxOpsRTAS
  /\ \E value \in RTAS_MMCR1Values : env' = [env EXCEPT !.mmcr1 = value]
  /\ last' = Handler("store_mmcr1", 0, U64(0), {}, 0)
  /\ ops' = ops + 1
  /\ UNCHANGED <<now, ticks, hist>>

RTAS_StorePMC ==
  /\ ops < MaxOpsRTAS
  /\ \E sprn \in RTAS_WrittenPMCs, value \in RTAS_PMCValues :
       /\ env' = rtas_helper_store_pmc(env, now, sprn, value)
       /\ last' = Handler("store_pmc", sprn, value, {}, 0)
  /\ ops' = ops + 1
  /\ UNCHANGED <<now, ticks, hist>>

NextRTAS ==
  \/ RTAS_Exec
  \/ RTAS_ExecToDeadline
  \/ RTAS_TimerCb
  \/ RTAS_StoreMMCR0
  \/ RTAS_StoreMMCR1
  \/ RTAS_StorePMC

SpecRTAS == InitRTAS /\ [][NextRTAS]_vars

\* the step freezes the PMU right after the MMCR0 write that unfroze it,
\* fewer than 2 instructions later
C23_ShortSession ==
  /\ StepIs("store_mmcr0")
  /\ "FC" \notin env.mmcr0 /\ "FC" \in env'.mmcr0
  /\ last.op = "store_mmcr0" /\ last.was_fc
  /\ env.pmu_base_icount = last.at
  /\ Lt64(Sub64(now, env.pmu_base_icount), U64(2))

(***************************************************************************)
(* C23  In the instruction-count based helper the elapsed count applied at *)
(* a freeze is never negative or wrapped: when fewer than 2 instructions   *)
(* elapsed between the unfreezing and the freezing MMCR0 writes, the       *)
(* amount added to every counter is zero.                                  *)
(***************************************************************************)
C23_ElapsedClampedToZero ==
  [][C23_ShortSession => env'.pmc = env.pmc]_vars

(***************************************************************************)
(* C24  After a helper_store_mmcr0 write at time t that changes MMCR0[FC]  *)
(* from 1 to 0, pmu_base_time equals t and every cycle-counting counter    *)
(* whose group is running and whose overflow-notification bit is set has a *)
(* pending timer with deadline t + max(0, 0x80000000 - value); the timers  *)
(* left pending from before the write are cancelled: a counter whose group *)
(* is frozen or whose notification bit is clear has no timer.              *)
(***************************************************************************)
C24_UnfreezeStartsSession ==
  [][(StepIs("store_mmcr0") /\ "FC" \in env.mmcr0 /\ "FC" \notin env'.mmcr0)
       => /\ env'.pmu_base_time = now
          /\ \A c \in TimerPMCs :
               IF ~GroupFrozen(env'.mmcr0, c) /\ NotificationOn(env'.mmcr0, c)
                 THEN CycleCounting(env', c)
                        => env'.pmu_intr_timers[c]
                             = Add64(now,
                                     IF Lt64(env'.pmc[c], COUNTER_NEGATIVE_VAL)
                                       THEN Sub64(COUNTER_NEGATIVE_VAL,
                                                  env'.pmc[c])
                                       ELSE U64(0))
                 ELSE env'.pmu_intr_timers[c] = NotPending]_vars

\* an unfreeze after time has passed, PMC6 holding the cycles of an earlier
\* session: its timer is due 0x80000000 - PMC6 after the write
C24_Witness ==
  /\ last.op = "store_mmcr0" /\ last.was_fc
  /\ "FC" \notin env.mmcr0
  /\ "PMCjCE" \in env.mmcr0 /\ "FC56" \notin env.mmcr0
  /\ Lt64(U64(0), env.pmc[6])
  /\ Lt64(env.pmc[6], COUNTER_NEGATIVE_VAL)
  /\ env.pmu_base_time = now
  /\ env.pmu_intr_timers[6]
       = Add64(now, Sub64(COUNTER_NEGATIVE_VAL, env.pmc[6]))

(***************************************************************************)
(* Problem-state and privileged access to the PMU registers                *)
(* (src/target/ppc/power8-pmu-regs.c.inc, the TARGET_PPC64 system build),  *)
(* on top of the per-counter-timer helper.  env gains gpr, the general     *)
(* purpose register of the access (for MMCR0, the set of its bits that are *)
(* 1), and excp, the exception the last access raised.  The translation    *)
(* flags mmcr0_pmcc0 and mmcr0_pmcc1 are the MMCR0 bits PMCC0 and PMCC1:   *)
(* helper_store_mmcr0 recomputes the hflags and the write ends the         *)
(* translation block.                                                      *)
(***************************************************************************)
\* the bits of MMCR0 a problem-state access reaches
MMCR0_UREG_MASK == {"FC", "PMAO", "PMAE"}

spr_groupA_read_allowed(e) ==
  ~("PMCC0" \notin e.mmcr0 /\ "PMCC1" \in e.mmcr0)

\* write access granted for every PMCC value but 0b00
spr_groupA_write_allowed_pmcc01(e) ==
  "PMCC0" \in e.mmcr0 \/ "PMCC1" \in e.mmcr0

spr_groupA_write_allowed(e) == "PMCC0" \in e.mmcr0

\* the exception a refused problem-state write raises
spr_groupA_write_excp(e) ==
  IF "PMCC1" \in e.mmcr0 THEN "FU" ELSE "INVAL_SPR"

spr_read_MMCR0_ureg(e) ==
  IF ~spr_groupA_read_allowed(e) THEN [e EXCEPT !.excp = "FU"]
  ELSE [e EXCEPT !.gpr = e.mmcr0 \cap MMCR0_UREG_MASK, !.excp = "none"]

write_MMCR0_common(e, t, val) ==
  [helper_store_mmcr0(e, t, val) EXCEPT !.excp = "none"]

\* the written value stored whole
spr_write_MMCR0_ureg_unmasked(e, t, gpr) ==
  IF ~spr_groupA_write_allowed(e)
    THEN [e EXCEPT !.excp = spr_groupA_write_excp(e)]
    ELSE write_MMCR0_common(e, t, gpr)

spr_write_MMCR0_ureg(e, t, gpr) ==
  IF ~spr_groupA_write_allowed(e)
    THEN [e EXCEPT !.excp = spr_groupA_write_excp(e)]
    ELSE LET t0 == gpr \cap MMCR0_UREG_MASK
             t1 == e.mmcr0 \ MMCR0_UREG_MASK
         IN  write_MMCR0_common(e, t, t1 \cup t0)

spr_write_MMCR0(e, t, gpr) == write_MMCR0_common(e, t, gpr)

\* values of privileged MMCR0 writes
Regs_MMCR0Values ==
  { {}, {"PMCC0"}, {"PMCC1", "FC14"},
    {"PMCC0", "PMCC1", "EBE", "PMCjCE"},
    {"PMCC0", "FC", "PMAE", "FCECE"} }

\* values of problem-state MMCR0 writes
Regs_GPRValues ==
  { {}, {"FC"}, {"FC", "PMAO", "EBE", "PMCC1"}, {"PMAE", "FC56", "PMCjCE"} }

InitRegs ==
  /\ env = cpu_ppc_pmu_timer_init @@ [gpr |-> {}, excp |-> "none"]
  /\ now = U64(0)
  /\ last = NoOp
  /\ ops = 0
  /\ ticks = 0
  /\ hist = <<>>

Regs_WriteMMCR0 ==
  /\ ops < MaxOps
  /\ \E value \in Regs_MMCR0Values :
       /\ env' = spr_write_MMCR0(env, now, value)
       /\ last' = Handler("write_mmcr0", 0, U64(0), value, 0)
  /\ ops' = ops + 1
  /\ UNCHANGED <<now, ticks, hist>>

Regs_WriteMMCR0_ureg ==
  /\ ops < MaxOps
  /\ \E value \in Regs_GPRValues :
       /\ env' = spr_write_MMCR0_ureg(env, now, value)
       /\ last' = Handler("write_mmcr0_ureg", 0, U64(0), value, 0)
  /\ ops' = ops + 1
  /\ UNCHANGED <<now, ticks, hist>>

Regs_ReadMMCR0_ureg ==
  /\ ops < MaxOps
  /\ env' = spr_read_MMCR0_ureg(env)
  /\ last' = Handler("read_mmcr0_ureg", 0, U64(0), {}, 0)
  /\ ops' = ops + 1
  /\ UNCHANGED <<now, ticks, hist>>

NextRegs ==
  \/ Tick
  \/ TickToDeadline
  \/ TimerCb
  \/ Regs_WriteMMCR0
  \/ Regs_WriteMMCR0_ureg
  \/ Regs_ReadMMCR0_ureg

SpecRegs == InitRegs /\ [][NextRegs]_vars

(***************************************************************************)
(* C25  A problem-state write to MMCR0 changes only the bits FC, PMAO and  *)
(* PMAE: every other MMCR0 bit keeps the value it had before the write,    *)
(* for every written value; a problem-state read returns only those three  *)
(* bits of MMCR0, all others read as 0.                                    *)
(***************************************************************************)
C25_UserAccessMasked ==
  [][/\ StepIs("write_mmcr0_ureg")
          => env'.mmcr0 \ {"FC", "PMAO", "PMAE"}
               = env.mmcr0 \ {"FC", "PMAO", "PMAE"}
     /\ (StepIs("read_mmcr0_ureg") /\ env'.excp = "none")
          => env'.gpr = env.mmcr0 \cap {"FC", "PMAO", "PMAE"}]_vars

\* a permitted problem-state write has set FC and PMAO; the written value
\* had EBE and PMCC1 set, MMCR0 keeps them clear, and keeps PMCC0 and FCECE
C25_Witness ==
  /\ last.op = "write_mmcr0_ureg"
  /\ env.excp = "none"
  /\ {"EBE", "PMCC1"} \subseteq last.mmcr0
  /\ {"PMCC0", "FCECE"} \subseteq last.was_mmcr0
  /\ "PMAO" \notin last.was_mmcr0
  /\ env.mmcr0 = {"PMCC0", "FCECE", "FC", "PMAO"}

\* the event selected for counter c (PMC1-4) is none the per-counter-timer
\* helper supports: not 0x02 or 0x1E, nor 0xF0 or 0xFE on PMC1, nor 0xFA on
\* PMC4
C26_Unsupported(e, c) ==
  /\ e.mmcr1[c] \notin {2, 30}
  /\ ~(c = 1 /\ e.mmcr1[c] \in {240, 254})
  /\ ~(c = 4 /\ e.mmcr1[c] = 250)

(***************************************************************************)
(* C26  A counter PMC1-4 whose selected event is invalid or unsupported is *)
(* inert: whatever its value (also >= 0x80000000) and whatever the         *)
(* notification bits, a step that arms the timers arms none for it, and no *)
(* timer of such a counter raises the PMC interrupt.                       *)
(***************************************************************************)
C26_InvalidCounterInert ==
  [][\A c \in ProgrammablePMCs :
       /\ (StartsSession /\ C26_Unsupported(env', c))
            => env'.pmu_intr_timers[c] = NotPending
       /\ (StepIs("timer_cb") /\ last'.sprn = c /\ C26_Unsupported(env, c))
            => env'.irq = env.irq]_vars

\* the same in the single-timer helper, where PMC1-4 support 0x02, 0x1E and
\* the stall events: after a counter write in a running PMU with every
\* supported counter under the threshold, the timer is not due at once
C26_B3S_InvalidCounterInert ==
  [][(/\ StepIs("store_pmc") /\ "FC" \notin env.mmcr0
      /\ \A c \in PMCs :
           (c \in {5, 6}
              \/ b3s_get_PMC_event(env', c) \in {2, 30, 10, 6, 22, 28})
             => Lt64(env'.pmc[c], COUNTER_NEGATIVE_VAL))
       => env'.pmu_intr_timer # now]_vars

\* counter c of the single-timer helper has notification enabled, a running
\* group and a time-based event (cycles or a stall event)
C27_Eligible(e, c) ==
  /\ b3s_pmc_counter_negative_enabled(e, c)
  /\ \/ c = 6
     \/ c \in ProgrammablePMCs
          /\ b3s_get_PMC_event(e, c) \in {30} \cup StallEvents

\* the overflow duration of an eligible counter
C27_Duration(e, c) ==
  IF c \in ProgrammablePMCs /\ b3s_get_PMC_event(e, c) \in StallEvents
    THEN get_stall_timeout(e, c, b3s_get_PMC_event(e, c))
    ELSE b3s_get_CYC_timeout(e, c)

\* the step runs set_PMU_excp_timer: an unfreeze or a counter write in a
\* running PMU, some notification bit set
C27_SetsTimer ==
  /\ b3s_counter_negative_cond_enabled(env'.mmcr0)
  /\ \/ /\ StepIs("store_mmcr0")
        /\ "FC" \in env.mmcr0 /\ "FC" \notin env'.mmcr0
     \/ StepIs("store_pmc") /\ "FC" \notin env.mmcr0

\* the timer as the step found it (a counter write deletes it first)
C27_TimerBefore ==
  IF last'.op = "store_pmc" THEN NotPending ELSE env.pmu_intr_timer

\* the timer is at now + the least duration of the eligible counters, or
\* untouched when there is none
C27_AtMinimum ==
  IF \A c \in PMCs : ~C27_Eligible(env', c)
    THEN env'.pmu_intr_timer = C27_TimerBefore
    ELSE \E c \in PMCs :
           /\ C27_Eligible(env', c)
           /\ env'.pmu_intr_timer = Add64(now, C27_Duration(env', c))
           /\ \A d \in PMCs :
                C27_Eligible(env', d)
                  => Leq64(C27_Duration(env', c), C27_Duration(env', d))

(***************************************************************************)
(* C27  set_PMU_excp_timer arms the single overflow timer at now + the     *)
(* minimum, over all counters PMC1..PMC6 that have notification enabled, a *)
(* running group and a time-based event, of their individual overflow      *)
(* durations (0 as soon as any such counter is already >= 0x80000000), and *)
(* leaves the timer untouched when no counter is eligible.                 *)
(***************************************************************************)
C27_SingleTimerAtMinimum ==
  [][C27_SetsTimer => C27_AtMinimum]_vars

\* the same when no counter without a time-based event, notification
\* enabled and group running, holds a value >= 0x80000000
C27_SingleTimerAtMinimumTimed ==
  [][(/\ C27_SetsTimer
      /\ \A c \in PMCs :
           (b3s_pmc_counter_negative_enabled(env', c)
              /\ ~C27_Eligible(env', c))
             => Lt64(env'.pmc[c], COUNTER_NEGATIVE_VAL))
       => C27_AtMinimum]_vars

\* counter c (PMC1-4) is selected with a stall event, its group runs, its
\* notification bit is set and its value is under the threshold
C28_StallTimed(e, c) ==
  /\ b3s_get_PMC_event(e, c) \in StallEvents
  /\ b3s_pmc_counter_negative_enabled(e, c)
  /\ Lt64(e.pmc[c], COUNTER_NEGATIVE_VAL)

\* (0x80000000 - v) * (100 / ratio), ratio 25 for event 0x0A and 5 for the
\* other stall events
C28_Duration(e, c) ==
  Mul64(Sub64(COUNTER_NEGATIVE_VAL, e.pmc[c]),
        IF b3s_get_PMC_event(e, c) = 10 THEN 100 \div 25 ELSE 100 \div 5)

\* the handler before this step armed the timer, at last.at: a counter write
\* in a running PMU or an unfreeze
C28_ArmedByLast ==
  \/ last.op = "store_pmc" /\ ~last.was_fc
  \/ last.op = "store_mmcr0" /\ last.was_fc /\ "FC" \notin env.mmcr0

(***************************************************************************)
(* C28  For a running stall-event counter with notification enabled and    *)
(* value v < 0x80000000 the overflow duration is                           *)
(* (0x80000000 - v) * (100 / ratio) ns, and when the timer armed with that *)
(* duration fires with no operation in between, the flush of the callback  *)
(* brings the counter to a value >= 0x80000000.                            *)
(***************************************************************************)
C28_StallTimerReachesThreshold ==
  [][\A c \in ProgrammablePMCs :
       /\ C28_StallTimed(env', c)
            => b3s_get_counter_neg_timeout(env', c) = C28_Duration(env', c)
       /\ (/\ StepIs("timer_cb")
           /\ C28_ArmedByLast
           /\ C28_StallTimed(env, c)
           /\ env.pmu_intr_timer = Add64(last.at, C28_Duration(env, c))
           /\ "EBE" \in env.mmcr0)
            => Geq64(env'.pmc[c], COUNTER_NEGATIVE_VAL)]_vars

\* PMC1, selected with event 0x0A, written 0x7FFFFFFE: the timer fired 8 ns
\* later and the callback left PMC1 at 0x80000000
C28_Witness ==
  /\ last.op = "timer_cb"
  /\ last.prev.op = "store_pmc" /\ last.prev.sprn = 1
  /\ last.prev.value = Sub64(COUNTER_NEGATIVE_VAL, U64(2))
  /\ ~last.prev.was_fc
  /\ env.mmcr1[1] = 10
  /\ {"EBE", "PMC1CE"} \subseteq last.was_mmcr0
  /\ last.at = Add64(last.prev.at, U64(8))
  /\ env.pmc[1] = COUNTER_NEGATIVE_VAL
  /\ env.irq = 1

\* counter c is eligible for the timer and has not overflowed yet
C29_Remaining(e, c) ==
  C27_Eligible(e, c) /\ Lt64(e.pmc[c], COUNTER_NEGATIVE_VAL)

(***************************************************************************)
(* C29  After the overflow callback has run without freezing the PMU       *)
(* (from the timer or from an instruction overflow), the single timer is   *)
(* re-armed for the earliest remaining counter, running, notification      *)
(* enabled, time-based and not yet overflowed: it is pending at now + the  *)
(* least of their durations, so that each of them comes to raise its own   *)
(* overflow.                                                               *)
(***************************************************************************)
C29_RearmedAfterFire ==
  [][(/\ StepIs("timer_cb") \/ (StepIs("insns_inc") /\ env'.irq # env.irq)
      /\ "FC" \notin env'.mmcr0
      /\ \E c \in PMCs : C29_Remaining(env', c))
       => \E c \in PMCs :
            /\ C29_Remaining(env', c)
            /\ env'.pmu_intr_timer = Add64(now, C27_Duration(env', c))
            /\ \A d \in PMCs :
                 C29_Remaining(env', d)
                   => Leq64(C27_Duration(env', c),
                            C27_Duration(env', d))]_vars

(***************************************************************************)
(* The machine of the per-counter-timer helper with the virtual clock      *)
(* standing still: the guest programs the PMU and the translated code      *)
(* reports batches of completed instructions.  Five handlers in a row      *)
(* reach a batch on a counter that was selected, written, given its        *)
(* notification bit and its run latch.                                     *)
(***************************************************************************)
MaxOpsInsns == 5

\* values written to MMCR0
Insns_MMCR0Values ==
  { {}, {"FC14"}, {"PMCjCE"}, {"PMCjCE", "EBE"}, {"PMCjCE", "EBE", "PMAE"} }

\* values written to MMCR1: PMC1SEL .. PMC4SEL
Insns_MMCR1Values ==
  { <<30, 2, 30, 250>>, <<240, 30, 240, 2>> }

\* sizes of the instruction batches
Insns_Batches == {5, 7}

Insns_StoreMMCR0 ==
  /\ ops < MaxOpsInsns
  /\ \E value \in Insns_MMCR0Values :
       /\ env' = helper_store_mmcr0(env, now, value)
       /\ last' = Handler("store_mmcr0", 0, U64(0), value, 0)
  /\ ops' = ops + 1
  /\ UNCHANGED <<now, ticks, hist>>

Insns_StoreMMCR1 ==
  /\ ops < MaxOpsInsns
  /\ \E value \in Insns_MMCR1Values :
       /\ env' = helper_store_mmcr1(env, value)
       /\ last' = Handler("store_mmcr1", 0, U64(0), {}, 0)
  /\ ops' = ops + 1
  /\ UNCHANGED <<now, ticks, hist>>

\* the guest writes PMC4
Insns_StorePMC4 ==
  /\ ops < MaxOpsInsns
  /\ \E value \in PMCValues :
       /\ env' = helper_store_pmc(env, now, 4, value)
       /\ last' = Handler("store_pmc", 4, value, {}, 0)
  /\ ops' = ops + 1
  /\ UNCHANGED <<now, ticks, hist>>

Insns_InsnsInc ==
  /\ ops < MaxOpsInsns
  /\ \E n \in Insns_Batches :
       /\ env' = helper_insns_inc(env, now, n)
       /\ last' = Handler("insns_inc", 0, U64(0), {}, n)
  /\ ops' = ops + 1
  /\ UNCHANGED <<now, ticks, hist>>

\* the guest sets or clears CTRL[RUN]
Insns_StoreCTRL ==
  /\ ops < MaxOpsInsns
  /\ env' = [env EXCEPT !.ctrl_run = ~@]
  /\ last' = Handler("store_ctrl", 0, U64(0), {}, 0)
  /\ ops' = ops + 1
  /\ UNCHANGED <<now, ticks, hist>>

NextInsns ==
  \/ Insns_StoreMMCR0
  \/ Insns_StoreMMCR1
  \/ Insns_StorePMC4
  \/ Insns_InsnsInc
  \/ Insns_StoreCTRL

SpecInsns == Init /\ [][NextInsns]_vars

(***************************************************************************)
(* C30  Counter 4 selected with event 0xFA (instructions completed with    *)
(* the run latch set) and the PMC1-4 group running: helper_insns_inc(N)    *)
(* adds N to PMC4 when CTRL[RUN] is set and leaves PMC4 unchanged when     *)
(* CTRL[RUN] is clear.                                                     *)
(***************************************************************************)
C30_RunLatchGatesPMC4 ==
  [][(/\ StepIs("insns_inc")
      /\ env.mmcr1[4] = 250
      /\ env.pmu_events[4] = "INSN_RUN_LATCH"
      /\ ~GroupFrozen(env.mmcr0, 4))
       => env'.pmc[4] = IF env.ctrl_run
                          THEN Add64(env.pmc[4], U64(last'.n))
                          ELSE env.pmc[4]]_vars

\* the same with counter 4 short of 0x80000000 before and after the batch,
\* or its notification bit clear
C30_RunLatchGatesPMC4BelowThreshold ==
  [][(/\ StepIs("insns_inc")
      /\ env.mmcr1[4] = 250
      /\ env.pmu_events[4] = "INSN_RUN_LATCH"
      /\ ~GroupFrozen(env.mmcr0, 4)
      /\ \/ ~NotificationOn(env.mmcr0, 4)
         \/ Lt64(C15_Sum(4, last'.n), COUNTER_NEGATIVE_VAL))
       => env'.pmc[4] = IF env.ctrl_run
                          THEN Add64(env.pmc[4], U64(last'.n))
                          ELSE env.pmc[4]]_vars

\* the run latch clear, PMC4 above the threshold with its notification bit
\* set: the batch has rewritten PMC4 although nothing was counted
C30_RunClearRewritten ==
  /\ last.op = "insns_inc"
  /\ env.mmcr1[4] = 250
  /\ ~env.ctrl_run
  /\ ~GroupFrozen(env.mmcr0, 4)
  /\ last.prev.op = "store_pmc" /\ last.prev.sprn = 4
  /\ Lt64(COUNTER_NEGATIVE_VAL, last.prev.value)
  /\ env.pmc[4] = COUNTER_NEGATIVE_VAL

(***************************************************************************)
(* The machine of all the Group A accessors of power8-pmu-regs.c.inc on    *)
(* top of the per-counter-timer helper, the virtual clock standing still.  *)
(* MMCR2 is the set of the names of its bits that are 1; gpr holds the     *)
(* register of an MMCR access, gprv the register of a counter access; excp *)
(* is the exception the last access generated.                             *)
(***************************************************************************)
MaxOpsGroupA == 3

\* the FCnP0 bits of MMCR2
MMCR2_UREG_MASK ==
  {"FC1P0", "FC2P0", "FC3P0", "FC4P0", "FC5P0", "FC6P0"}

\* spr_write_generic: the register stored whole
spr_write_generic_MMCR2(e, gpr) ==
  [e EXCEPT !.mmcr2 = gpr, !.excp = "none"]

spr_read_MMCR2_ureg(e) ==
  IF ~spr_groupA_read_allowed(e) THEN [e EXCEPT !.excp = "FU"]
  ELSE [e EXCEPT !.gpr = e.mmcr2 \cap MMCR2_UREG_MASK, !.excp = "none"]

spr_write_MMCR2_ureg(e, gpr) ==
  IF ~spr_groupA_write_allowed(e)
    THEN [e EXCEPT !.excp = spr_groupA_write_excp(e)]
    ELSE spr_write_generic_MMCR2(e, gpr)

\* spr_read_ureg: the counter loaded as it is stored
spr_read_PMC14_ureg(e, sprn) ==
  IF ~spr_groupA_read_allowed(e) THEN [e EXCEPT !.excp = "FU"]
  ELSE [e EXCEPT !.gprv = e.pmc[sprn], !.excp = "none"]

spr_read_PMC56_ureg(e, sprn) ==
  IF "PMCC0" \in e.mmcr0 /\ "PMCC1" \in e.mmcr0
    THEN [e EXCEPT !.excp = "FU"]
    ELSE spr_read_PMC14_ureg(e, sprn)

spr_write_PMC(e, t, sprn, gprv) ==
  [helper_store_pmc(e, t, sprn, gprv) EXCEPT !.excp = "none"]

spr_write_PMC14_ureg(e, t, sprn, gprv) ==
  IF ~spr_groupA_write_allowed(e)
    THEN [e EXCEPT !.excp = spr_groupA_write_excp(e)]
    ELSE spr_write_PMC(e, t, sprn, gprv)

\* PMC5 and PMC6 written as PMC1-4 are
spr_write_PMC56_ureg_as_PMC14(e, t, sprn, gprv) ==
  spr_write_PMC14_ureg(e, t, sprn, gprv)

spr_write_PMC56_ureg(e, t, sprn, gprv) ==
  IF "PMCC0" \in e.mmcr0 /\ "PMCC1" \in e.mmcr0
    THEN [e EXCEPT !.excp = "FU"]
    ELSE spr_write_PMC14_ureg(e, t, sprn, gprv)

\* the accessor of counter sprn
spr_read_PMC_ureg(e, sprn) ==
  IF sprn < 5 THEN spr_read_PMC14_ureg(e, sprn)
  ELSE spr_read_PMC56_ureg(e, sprn)

spr_write_PMC_ureg(e, t, sprn, gprv) ==
  IF sprn < 5 THEN spr_write_PMC14_ureg(e, t, sprn, gprv)
  ELSE spr_write_PMC56_ureg(e, t, sprn, gprv)

\* values of privileged MMCR0 writes: the four values of PMCC
GroupA_MMCR0Values ==
  { {"FC"}, {"PMCC1", "FC"}, {"PMCC0", "FC", "PMAE"},
    {"PMCC0", "PMCC1", "FC"}, {"PMCC0", "PMCC1"} }

\* values of problem-state MMCR0 writes
GroupA_GPRValues == { {}, {"FC", "PMAO", "EBE", "PMCC1"} }

\* values written to MMCR2
GroupA_MMCR2Values ==
  { {}, {"FC1P0", "FC6P0"}, {"FC1S", "FC1P0", "FC5P1"}, {"FC2S", "FC6M0"} }

\* the counters accessed and the values written to them
GroupA_PMCs == {1, 4, 5, 6}

GroupA_PMCValues == { U64(7), Add64(COUNTER_NEGATIVE_VAL, U64(1)) }

InitGroupA ==
  /\ env = cpu_ppc_pmu_timer_init
             @@ [mmcr2 |-> {}, gpr |-> {}, gprv |-> U64(0), excp |-> "none"]
  /\ now = U64(0)
  /\ last = NoOp
  /\ ops = 0
  /\ ticks = 0
  /\ hist = <<>>

GroupA_WriteMMCR0 ==
  /\ ops < MaxOpsGroupA
  /\ \E value \in GroupA_MMCR0Values :
       /\ env' = spr_write_MMCR0(env, now, value)
       /\ last' = Handler("write_mmcr0", 0, U64(0), value, 0)
  /\ ops' = ops + 1
  /\ UNCHANGED <<now, ticks, hist>>

GroupA_WriteMMCR2 ==
  /\ ops < MaxOpsGroupA
  /\ \E value \in GroupA_MMCR2Values :
       /\ env' = spr_write_generic_MMCR2(env, value)
       /\ last' = Handler("write_mmcr2", 0, U64(0), value, 0)
  /\ ops' = ops + 1
  /\ UNCHANGED <<now, ticks, hist>>

GroupA_WritePMC ==
  /\ ops < MaxOpsGroupA
  /\ \E sprn \in GroupA_PMCs, value \in GroupA_PMCValues :
       /\ env' = spr_write_PMC(env, now, sprn, value)
       /\ last' = Handler("write_pmc", sprn, value, {}, 0)
  /\ ops' = ops + 1
  /\ UNCHANGED <<now, ticks, hist>>

GroupA_WriteMMCR0_ureg ==
  /\ ops < MaxOpsGroupA
  /\ \E value \in GroupA_GPRValues :
       /\ env' = spr_write_MMCR0_ureg(env, now, value)
       /\ last' = Handler("write_mmcr0_ureg", 0, U64(0), value, 0)
  /\ ops' = ops + 1
  /\ UNCHANGED <<now, ticks, hist>>

GroupA_ReadMMCR0_ureg ==
  /\ ops < MaxOpsGroupA
  /\ env' = spr_read_MMCR0_ureg(env)
  /\ last' = Handler("read_mmcr0_ureg", 0, U64(0), {}, 0)
  /\ ops' = ops + 1
  /\ UNCHANGED <<now, ticks, hist>>

GroupA_WriteMMCR2_ureg ==
  /\ ops < MaxOpsGroupA
  /\ \E value \in GroupA_MMCR2Values :
       /\ env' = spr_write_MMCR2_ureg(env, value)
       /\ last' = Handler("write_mmcr2_ureg", 0, U64(0), value, 0)
  /\ ops' = ops + 1
  /\ UNCHANGED <<now, ticks, hist>>

GroupA_ReadMMCR2_ureg ==
  /\ ops < MaxOpsGroupA
  /\ env' = spr_read_MMCR2_ureg(env)
  /\ last' = Handler("read_mmcr2_ureg", 0, U64(0), {}, 0)
  /\ ops' = ops + 1
  /\ UNCHANGED <<now, ticks, hist>>

GroupA_WritePMC_ureg ==
  /\ ops < MaxOpsGroupA
  /\ \E sprn \in GroupA_PMCs, value \in GroupA_PMCValues :
       /\ env' = spr_write_PMC_ureg(env, now, sprn, value)
       /\ last' = Handler("write_pmc_ureg", sprn, value, {}, 0)
  /\ ops' = ops + 1
  /\ UNCHANGED <<now, ticks, hist>>

GroupA_ReadPMC_ureg ==
  /\ ops < MaxOpsGroupA
  /\ \E sprn \in GroupA_PMCs :
       /\ env' = spr_read_PMC_ureg(env, sprn)
       /\ last' = Handler("read_pmc_ureg", sprn, U64(0), {}, 0)
  /\ ops' = ops + 1
  /\ UNCHANGED <<now, ticks, hist>>

NextGroupA ==
  \/ GroupA_WriteMMCR0
  \/ GroupA_WriteMMCR2
  \/ GroupA_WritePMC
  \/ GroupA_WriteMMCR0_ureg
  \/ GroupA_ReadMMCR0_ureg
  \/ GroupA_WriteMMCR2_ureg
  \/ GroupA_ReadMMCR2_ureg
  \/ GroupA_WritePMC_ureg
  \/ GroupA_ReadPMC_ureg

SpecGroupA == InitGroupA /\ [][NextGroupA]_vars

\* the step is a problem-state read, or a problem-state write
UregRead ==
  \/ StepIs("read_mmcr0_ureg")
  \/ StepIs("read_mmcr2_ureg")
  \/ StepIs("read_pmc_ureg")

UregWrite ==
  \/ StepIs("write_mmcr0_ureg")
  \/ StepIs("write_mmcr2_ureg")
  \/ StepIs("write_pmc_ureg")

\* the step accesses PMC5 or PMC6 from problem state
UregPMC56 ==
  /\ StepIs("read_pmc_ureg") \/ StepIs("write_pmc_ureg")
  /\ last'.sprn \in {5, 6}

\* the two bits of MMCR0[PMCC], PMCC0 the high one
PMCC(mmcr0) ==
  (IF "PMCC0" \in mmcr0 THEN 2 ELSE 0) + (IF "PMCC1" \in mmcr0 THEN 1 ELSE 0)

\* the access was refused with exception x and touched no register
RefusedWith(x) == env' = [env EXCEPT !.excp = x]

(***************************************************************************)
(* C31  Problem-state access to the Group A registers (MMCR0, MMCR2, the   *)
(* PMCs) is decided by MMCR0[PMCC] alone: a read is refused with Facility  *)
(* Unavailable exactly when PMCC = 0b01; a write is performed exactly when *)
(* PMCC is 0b10 or 0b11, refused with Hypervisor Emulation Assistance when *)
(* PMCC = 0b00 and with Facility Unavailable when PMCC = 0b01; a refused   *)
(* access reads or writes no register.                                     *)
(***************************************************************************)
C31_AccessByPMCC ==
  [][/\ UregRead
          => /\ env'.excp \in {"none", "FU"}
             /\ env'.excp = "FU" <=> PMCC(env.mmcr0) = 1
             /\ env'.excp = "FU" => RefusedWith("FU")
     /\ UregWrite
          => /\ env'.excp = "none" <=> PMCC(env.mmcr0) \in {2, 3}
             /\ PMCC(env.mmcr0) = 0 => RefusedWith("INVAL_SPR")
             /\ PMCC(env.mmcr0) = 1 => RefusedWith("FU")]_vars

\* the same for MMCR0, MMCR2 and PMC1-4; PMC5 and PMC6 follow the rule but
\* for PMCC = 0b11, where their access is refused with Facility Unavailable
C31_AccessByPMCCButPMC56 ==
  [][/\ (UregRead /\ ~(UregPMC56 /\ PMCC(env.mmcr0) = 3))
          => /\ env'.excp \in {"none", "FU"}
             /\ env'.excp = "FU" <=> PMCC(env.mmcr0) = 1
             /\ env'.excp = "FU" => RefusedWith("FU")
     /\ (UregWrite /\ ~(UregPMC56 /\ PMCC(env.mmcr0) = 3))
          => /\ env'.excp = "none" <=> PMCC(env.mmcr0) \in {2, 3}
             /\ PMCC(env.mmcr0) = 0 => RefusedWith("INVAL_SPR")
             /\ PMCC(env.mmcr0) = 1 => RefusedWith("FU")
     /\ (UregPMC56 /\ PMCC(env.mmcr0) = 3) => RefusedWith("FU")]_vars

\* PMCC = 0b00 after a privileged write of MMCR2: a problem-state write to
\* MMCR2 was refused with Hypervisor Emulation Assistance, MMCR2 kept
C31_Witness ==
  /\ last.op = "write_mmcr2_ureg"
  /\ last.prev.op = "write_mmcr2"
  /\ PMCC(env.mmcr0) = 0
  /\ env.excp = "INVAL_SPR"
  /\ last.mmcr0 = {"FC2S", "FC6M0"}
  /\ env.mmcr2 = {"FC1S", "FC1P0", "FC5P1"}

(***************************************************************************)
(* C32  With MMCR0[PMCC] = 0b11 every problem-state read or write of PMC5  *)
(* or PMC6 is refused with Facility Unavailable and leaves the counter and *)
(* the destination register unchanged, while the same access to PMC1-4 is  *)
(* permitted: the read loads the counter, the write stores the value.      *)
(***************************************************************************)
C32_PMC56RefusedAtPMCC11 ==
  [][(/\ StepIs("read_pmc_ureg") \/ StepIs("write_pmc_ureg")
      /\ PMCC(env.mmcr0) = 3)
       => IF last'.sprn \in {5, 6}
            THEN /\ env'.excp = "FU"
                 /\ env'.pmc = env.pmc
                 /\ env'.gprv = env.gprv
                 /\ RefusedWith("FU")
            ELSE /\ env'.excp = "none"
                 /\ StepIs("read_pmc_ureg")
                      => env'.gprv = env.pmc[last'.sprn]
                 /\ StepIs("write_pmc_ureg")
                      => env'.pmc[last'.sprn] = last'.value]_vars

\* PMCC = 0b11, PMC5 holding 7 from a privileged write: the problem-state
\* write of 0x80000001 to PMC5 was refused and PMC5 still holds 7
C32_Witness ==
  /\ last.op = "write_pmc_ureg" /\ last.sprn = 5
  /\ last.value = Add64(COUNTER_NEGATIVE_VAL, U64(1))
  /\ last.prev.op = "write_pmc" /\ last.prev.sprn = 5
  /\ PMCC(env.mmcr0) = 3
  /\ env.excp = "FU"
  /\ env.pmc[5] = U64(7)

\* PMCC = 0b11: the problem-state read of PMC1 was permitted and loaded 7
C32_WitnessPMC14 ==
  /\ last.op = "read_pmc_ureg" /\ last.sprn = 1
  /\ PMCC(env.mmcr0) = 3
  /\ env.excp = "none"
  /\ env.pmc[1] = U64(7)
  /\ env.gprv = U64(7)

(***************************************************************************)
(* C33  When MMCR0[PMCC] gives problem state access to MMCR2, only the     *)
(* FCnP0 bits can be accessed: a problem-state mtspr to MMCR2 leaves every *)
(* MMCR2 bit other than the FCnP0 bits unchanged, and a problem-state      *)
(* mfspr returns 0 for every other bit.                                    *)
(***************************************************************************)
C33_MMCR2UserAccessMasked ==
  [][/\ StepIs("write_mmcr2_ureg")
          => env'.mmcr2 \ MMCR2_UREG_MASK = env.mmcr2 \ MMCR2_UREG_MASK
     /\ (StepIs("read_mmcr2_ureg") /\ env'.excp = "none")
          => env'.gpr = env.mmcr2 \cap MMCR2_UREG_MASK]_vars

\* the half of the mfspr alone
C33_MMCR2UserReadMasked ==
  [][(StepIs("read_mmcr2_ureg") /\ env'.excp = "none")
       => env'.gpr = env.mmcr2 \cap MMCR2_UREG_MASK]_vars

\* a permitted problem-state mtspr has changed bits of MMCR2 that are no
\* FCnP0 bits
C33_OtherBitsWritten ==
  /\ last.op = "write_mmcr2_ureg"
  /\ env.excp = "none"
  /\ last.prev.op = "write_mmcr2"
  /\ last.mmcr0 = {"FC2S", "FC6M0"}
  /\ env.mmcr2 = {"FC2S", "FC6M0"}

\* a permitted problem-state mfspr of MMCR2 = FC1S|FC1P0|FC5P1 returned
\* FC1P0 alone
C33_ReadWitness ==
  /\ last.op = "read_mmcr2_ureg"
  /\ env.excp = "none"
  /\ env.mmcr2 = {"FC1S", "FC1P0", "FC5P1"}
  /\ env.gpr = {"FC1P0"}

(***************************************************************************)
(* The early PMU model: pmu-book3s-v3.c and its first version, part_002.   *)
(* env.v3 is the pmuState of pmu-book3s-v3.c, env.p2 the pmuState of       *)
(* part_002; both are driven by the same calls.  The counters are unsigned *)
(* long.                                                                   *)
(***************************************************************************)
MaxOpsV3 == 4

\* the static pmuState, zero before init_book3s_PMU
pmuState0 ==
  [PMC |-> [s \in PMCs |-> U64(0)],
   freeze_counters |-> FALSE,
   freeze_pmc5_pmc6 |-> FALSE]

init_book3s_PMU(s) == [s EXCEPT !.freeze_counters = TRUE]

PMU_set_freeze_counters(s, fc) == [s EXCEPT !.freeze_counters = fc]

PMU_set_freeze_PMC5PMC6(s, fc56) == [s EXCEPT !.freeze_pmc5_pmc6 = fc56]

\* the freeze flags not looked at
PMU_instructions_completed_unfrozen(s, num_insns) ==
  [s EXCEPT !.PMC[1] = Add64(@, U64(num_insns)),
            !.PMC[2] = Add64(@, U64(num_insns * 4)),
            !.PMC[5] = Add64(@, U64(num_insns)),
            !.PMC[6] = Add64(@, U64(num_insns * 4))]

PMU_instructions_completed(s, num_insns) ==
  IF s.freeze_counters THEN s
  ELSE LET s1 == [s EXCEPT !.PMC[1] = Add64(@, U64(num_insns)),
                           !.PMC[2] = Add64(@, U64(num_insns * 4))]
       IN  IF ~s.freeze_pmc5_pmc6
             THEN [s1 EXCEPT !.PMC[5] = Add64(@, U64(num_insns)),
                             !.PMC[6] = Add64(@, U64(num_insns * 4))]
             ELSE s1

\* PMU_instructions_completed of part_002: PMC5 and PMC6 alone
p2_PMU_instructions_completed(s, num_insns) ==
  IF s.freeze_counters THEN s
  ELSE IF ~s.freeze_pmc5_pmc6
         THEN [s EXCEPT !.PMC[5] = Add64(@, U64(num_insns)),
                        !.PMC[6] = Add64(@, U64(num_insns * 4))]
         ELSE s

PMU_get_PMC(s, sprn) == s.PMC[sprn]

PMU_set_PMC(s, sprn, val) == [s EXCEPT !.PMC[sprn] = val]

\* sizes of the instruction batches, the counters set and the values set
V3_Batches == {1, 3}

V3_SetPMCs == {1, 5, 6}

V3_PMCValues == { U64(9), Sub64(U64(0), U64(2)) }

V3_Op(op, sprn, value, n) ==
  [NoOp EXCEPT !.op = op, !.sprn = sprn, !.value = value, !.n = n]

InitV3 ==
  /\ env = [v3 |-> init_book3s_PMU(pmuState0),
            p2 |-> init_book3s_PMU(pmuState0)]
  /\ now = U64(0)
  /\ last = NoOp
  /\ ops = 0
  /\ ticks = 0
  /\ hist = <<>>

V3_SetFreezeCounters ==
  /\ ops < MaxOpsV3
  /\ \E fc \in BOOLEAN :
       /\ env' = [v3 |-> PMU_set_freeze_counters(env.v3, fc),
                  p2 |-> PMU_set_freeze_counters(env.p2, fc)]
       /\ last' = V3_Op("set_freeze_counters", 0, U64(0), 0)
  /\ ops' = ops + 1
  /\ UNCHANGED <<now, ticks, hist>>

V3_SetFreezePMC5PMC6 ==
  /\ ops < MaxOpsV3
  /\ \E fc56 \in BOOLEAN :
       /\ env' = [v3 |-> PMU_set_freeze_PMC5PMC6(env.v3, fc56),
                  p2 |-> PMU_set_freeze_PMC5PMC6(env.p2, fc56)]
       /\ last' = V3_Op("set_freeze_pmc5pmc6", 0, U64(0), 0)
  /\ ops' = ops + 1
  /\ UNCHANGED <<now, ticks, hist>>

V3_InstructionsCompleted ==
  /\ ops < MaxOpsV3
  /\ \E n \in V3_Batches :
       /\ env' = [v3 |-> PMU_instructions_completed(env.v3, n),
                  p2 |-> p2_PMU_instructions_completed(env.p2, n)]
       /\ last' = V3_Op("instructions_completed", 0, U64(0), n)
  /\ ops' = ops + 1
  /\ UNCHANGED <<now, ticks, hist>>

\* PMU_set_PMC, which part_002 does not have
V3_SetPMC ==
  /\ ops < MaxOpsV3
  /\ \E sprn \in V3_SetPMCs, val \in V3_PMCValues :
       /\ env' = [env EXCEPT !.v3 = PMU_set_PMC(env.v3, sprn, val)]
       /\ last' = V3_Op("set_pmc", sprn, val, 0)
  /\ ops' = ops + 1
  /\ UNCHANGED <<now, ticks, hist>>

NextV3 ==
  \/ V3_SetFreezeCounters
  \/ V3_SetFreezePMC5PMC6
  \/ V3_InstructionsCompleted
  \/ V3_SetPMC

SpecV3 == InitV3 /\ [][NextV3]_vars

(***************************************************************************)
(* C34  In the early PMU model the PMU is frozen after init_book3s_PMU,    *)
(* and PMU_instructions_completed(n) changes no counter while              *)
(* freeze_counters is true; while freeze_counters is false and             *)
(* freeze_pmc5_pmc6 is true it leaves PMC5 and PMC6 unchanged.  The same   *)
(* holds for PMU_instructions_completed of part_002.                       *)
(***************************************************************************)
C34_FrozenCountsNothing ==
  /\ env.v3.freeze_counters /\ env.p2.freeze_counters
  /\ [][StepIs("instructions_completed")
          => /\ env.v3.freeze_counters => env'.v3.PMC = env.v3.PMC
             /\ env.p2.freeze_counters => env'.p2.PMC = env.p2.PMC
             /\ (~env.v3.freeze_counters /\ env.v3.freeze_pmc5_pmc6)
                  => /\ env'.v3.PMC[5] = env.v3.PMC[5]
                     /\ env'.v3.PMC[6] = env.v3.PMC[6]
             /\ (~env.p2.freeze_counters /\ env.p2.freeze_pmc5_pmc6)
                  => env'.p2.PMC = env.p2.PMC]_vars

\* unfrozen with PMC5 and PMC6 frozen, PMC5 set to 9: a batch of 3 has
\* advanced PMC1 and PMC2 and left PMC5 at 9
C34_Witness ==
  /\ last.op = "instructions_completed" /\ last.n = 3
  /\ ~env.v3.freeze_counters /\ env.v3.freeze_pmc5_pmc6
  /\ env.v3.PMC[1] = U64(3) /\ env.v3.PMC[2] = U64(12)
  /\ env.v3.PMC[5] = U64(9) /\ env.v3.PMC[6] = U64(0)

\* a batch reported to the PMU as init_book3s_PMU leaves it: no counter moved
C34_WitnessFrozen ==
  /\ last.op = "instructions_completed"
  /\ ops = 2
  /\ env.v3.freeze_counters
  /\ env.v3.PMC[5] = U64(9)
  /\ env.p2.PMC[5] = U64(0)

\* the step is an overflow fire that found MMCR0[EBE] set: the callback of a
\* timer or a batch of instructions, and the PMC interrupt was raised
C35_Fire ==
  /\ StepIs("timer_cb") \/ StepIs("insns_inc")
  /\ env'.irq = env.irq + 1

(***************************************************************************)
(* C35  In the per-counter-timer helper, after an overflow fire that finds *)
(* MMCR0[EBE] set, MMCR0[PMAE] is clear, and MMCR0[PMAO] is set if and     *)
(* only if PMAE was set before the fire or PMAO was already set; no fire   *)
(* ever sets PMAE.                                                         *)
(***************************************************************************)
C35_FireMovesPMAEToPMAO ==
  [][/\ C35_Fire
          => /\ "PMAE" \notin env'.mmcr0
             /\ "PMAO" \in env'.mmcr0
                  <=> ("PMAE" \in env.mmcr0 \/ "PMAO" \in env.mmcr0)
     /\ (StepIs("timer_cb") \/ StepIs("insns_inc"))
          => ("PMAE" \in env'.mmcr0 => "PMAE" \in env.mmcr0)]_vars

\* a batch has fired with EBE and PMAE set: PMAE is clear and PMAO set
C35_Witness ==
  /\ last.op = "insns_inc"
  /\ {"EBE", "PMAE"} \subseteq last.was_mmcr0
  /\ "PMAO" \notin last.was_mmcr0
  /\ env.irq = 1
  /\ "PMAE" \notin env.mmcr0
  /\ "PMAO" \in env.mmcr0

\* a second fire, finding PMAO set and PMAE clear, has kept PMAO
C35_WitnessPMAOKept ==
  /\ last.op = "insns_inc"
  /\ "EBE" \in last.was_mmcr0
  /\ "PMAO" \in last.was_mmcr0 /\ "PMAE" \notin last.was_mmcr0
  /\ env.irq = 2
  /\ "PMAE" \notin env.mmcr0
  /\ "PMAO" \in env.mmcr0

\* the callback of a timer has fired with EBE and PMAE set
C35_WitnessTimer ==
  /\ last.op = "timer_cb"
  /\ {"EBE", "PMAE"} \subseteq last.was_mmcr0
  /\ env.irq = 1
  /\ "PMAE" \notin env.mmcr0
  /\ "PMAO" \in env.mmcr0

(***************************************************************************)
(* C36  In the per-counter-timer helper, helper_insns_inc never decreases  *)
(* a counter: in every reachable state, also with a counter value above    *)
(* 0x80000000 written by the guest, and for every N >= 1, each counter's   *)
(* value after the call is >= its value before the call.                   *)
(***************************************************************************)
C36_InsnsIncNeverDecreases ==
  [][StepIs("insns_inc")
       => \A c \in PMCs : Leq64(env.pmc[c], env'.pmc[c])]_vars

\* the same for the counters that are not above 0x80000000 before the call
C36_InsnsIncNeverDecreasesUpToThreshold ==
  [][StepIs("insns_inc")
       => \A c \in PMCs :
            Leq64(env.pmc[c], COUNTER_NEGATIVE_VAL)
              => Leq64(env.pmc[c], env'.pmc[c])]_vars

\* PMC5 written with 0x80000001, its notification bit set: the batch has
\* brought it down to 0x80000000
C36_Decreased ==
  /\ last.op = "insns_inc"
  /\ last.prev.op = "store_pmc" /\ last.prev.sprn = 5
  /\ last.prev.value = Add64(COUNTER_NEGATIVE_VAL, U64(1))
  /\ env.pmc[5] = COUNTER_NEGATIVE_VAL

\* a batch of n brings instruction counter c across 0x80000000: c counts,
\* its notification bit is set, it is under the threshold before the batch
\* and at or above it after
C37_Crosses(c, n) ==
  /\ C15_Overflows(c, n)
  /\ Lt64(env.pmc[c], COUNTER_NEGATIVE_VAL)

(***************************************************************************)
(* C37  In the per-counter-timer helper an instruction counter flags an    *)
(* overflow only in the batch in which its value crosses 0x80000000: once  *)
(* it has been clamped to 0x80000000 and the PMU keeps running, later      *)
(* helper_insns_inc calls do not invoke fire_PMC_interrupt again for it;   *)
(* likewise a run-latch counter with CTRL[RUN] clear, to which nothing is  *)
(* added, flags no overflow.                                               *)
(***************************************************************************)
C37_OverflowOnlyWhenCrossing ==
  [][(StepIs("insns_inc") /\ overflow_triggered(env, last'.n))
       => \E c \in PMCs : C37_Crosses(c, last'.n)]_vars

\* two batches in a row have each raised the PMC interrupt: the first left
\* PMC4 clamped at 0x80000000, the second found it there and fired again
C37_FiredAgain ==
  /\ last.op = "insns_inc" /\ last.prev.op = "insns_inc"
  /\ "EBE" \in env.mmcr0 /\ "FC" \notin env.mmcr0
  /\ env.irq = 2
  /\ env.pmc[4] = COUNTER_NEGATIVE_VAL

(***************************************************************************)
(* C38  In the single-timer helper, in every state reachable through any   *)
(* interleaving of helper_store_mmcr0, helper_store_pmc, helper_insns_inc  *)
(* and timer callbacks, the overflow timer is not pending whenever         *)
(* MMCR0[FC] is set, also when FC was set by the freeze-on-overflow path   *)
(* of the callback.                                                        *)
(***************************************************************************)
C38_NoTimerWhileFrozen ==
  "FC" \in env.mmcr0 => env.pmu_intr_timer = NotPending

\* a batch of instructions overflowed PMC5 with FCECE set while the timer
\* was pending for PMC6: the callback froze the PMU and no timer is pending
C38_Witness ==
  /\ last.op = "insns_inc"
  /\ last.prev.op = "store_pmc" /\ last.prev.sprn = 5
  /\ "FCECE" \in last.was_mmcr0 /\ "FC" \notin last.was_mmcr0
  /\ "FC" \in env.mmcr0
  /\ env.irq = 1
  /\ env.pmu_intr_timer = NotPending

\* the expiry of the timer froze the PMU
C38_WitnessTimer ==
  /\ last.op = "timer_cb"
  /\ "FC" \notin last.was_mmcr0
  /\ "FC" \in env.mmcr0
  /\ env.pmu_intr_timer = NotPending

\* counter d counts cycles and its group runs before and after the step
C39_Running(d) ==
  /\ CycleCounting(env, d) /\ CycleCounting(env', d)
  /\ ~GroupFrozen(env.mmcr0, d) /\ ~GroupFrozen(env'.mmcr0, d)

\* the step freezes the running PMU
C39_Freezes ==
  StepIs("store_mmcr0") /\ "FC" \notin env.mmcr0 /\ "FC" \in env'.mmcr0

(***************************************************************************)
(* C39  A helper_store_pmc write to one counter while the PMU runs neither *)
(* loses nor double-counts the progress of the other counters: every other *)
(* running cycle-counting counter is credited with the time elapsed up to  *)
(* the write and the shared baseline is reset to the time of the write; at *)
(* the freeze that follows the write it has gained the time since the      *)
(* write, so a counter written with v at t0, another counter written after *)
(* it, holds v plus the whole unfrozen time since t0 at the freeze.        *)
(***************************************************************************)
C39_OtherCountersCredited ==
  [][\A d \in PMCs :
       /\ (/\ StepIs("store_pmc") /\ "FC" \notin env.mmcr0
           /\ last'.sprn # d /\ C39_Running(d))
            => /\ env'.pmc[d] = Add64(env.pmc[d],
                                      Sub64(now, env.pmu_base_time))
               /\ env'.pmu_base_time = now
       /\ (/\ C39_Freezes /\ C39_Running(d)
           /\ last.op = "store_pmc" /\ ~last.was_fc /\ last.sprn # d)
            => env'.pmc[d] = Add64(env.pmc[d], Sub64(now, last.at))
       /\ (/\ C39_Freezes /\ C39_Running(d)
           /\ last.op = "store_pmc" /\ ~last.was_fc /\ last.sprn # d
           /\ last.prev.op = "store_pmc" /\ ~last.prev.was_fc
           /\ last.prev.sprn = d
           /\ ~GroupFrozen(last.prev.was_mmcr0, d))
            => env'.pmc[d] = Add64(last.prev.value,
                                   Sub64(now, last.prev.at))]_vars

\* PMC6 counting from 0 since t = 0, PMC5 written at t = 100, the PMU frozen
\* at t = 200: PMC6 holds 200
C39_Witness ==
  /\ last.op = "store_mmcr0" /\ ~last.was_fc /\ "FC" \in env.mmcr0
  /\ last.at = U64(200)
  /\ last.prev.op = "store_pmc" /\ last.prev.sprn = 5
  /\ last.prev.at = U64(100)
  /\ "FC56" \notin last.was_mmcr0
  /\ env.pmc[6] = U64(200)

\* the same in the single-timer helper, for PMC6
C39_B3S_OtherCountersCredited ==
  [][/\ (/\ StepIs("store_pmc") /\ "FC" \notin env.mmcr0
         /\ last'.sprn # 6 /\ "FC56" \notin env.mmcr0)
          => /\ env'.pmc[6] = Add64(env.pmc[6],
                                    Sub64(now, env.pmu_base_time))
             /\ env'.pmu_base_time = now
     /\ (/\ C39_Freezes /\ "FC56" \notin env.mmcr0 \cup env'.mmcr0
         /\ last.op = "store_pmc" /\ ~last.was_fc /\ last.sprn # 6)
          => env'.pmc[6] = Add64(env.pmc[6], Sub64(now, last.at))
     /\ (/\ C39_Freezes /\ "FC56" \notin env.mmcr0 \cup env'.mmcr0
         /\ last.op = "store_pmc" /\ ~last.was_fc /\ last.sprn # 6
         /\ last.prev.op = "store_pmc" /\ ~last.prev.was_fc
         /\ last.prev.sprn = 6
         /\ "FC56" \notin last.prev.was_mmcr0)
          => env'.pmc[6] = Add64(last.prev.value,
                                 Sub64(now, last.prev.at))]_vars

(***************************************************************************)
(* The single-timer helper under every event selection: MMCR1 is written   *)
(* with each of the 256 values of a PMCnSEL field, the same for PMC1-4,    *)
(* and the handlers that arm the timer run; the virtual clock stands       *)
(* still.                                                                  *)
(***************************************************************************)
MaxOpsStall == 3

\* the values of a PMCnSEL field
PMCnSELValues == 0 .. 255

\* the event get_counter_neg_timeout passes to get_stall_timeout for counter
\* sprn, 0 when it does not call it; PMC1-4 select their event as MMCR1 says
stall_timeout_event_cyc(e, sprn) ==
  IF ~b3s_pmc_counter_negative_enabled(e, sprn) THEN 0
  ELSE IF Geq64(e.pmc[sprn], COUNTER_NEGATIVE_VAL) THEN 0
  ELSE IF sprn \in ProgrammablePMCs
            /\ b3s_get_PMC_event(e, sprn) \in {10, 6, 22, 28, 30}
    THEN b3s_get_PMC_event(e, sprn)
  ELSE 0

stall_timeout_event(e, sprn) ==
  IF ~b3s_pmc_counter_negative_enabled(e, sprn) THEN 0
  ELSE IF Geq64(e.pmc[sprn], COUNTER_NEGATIVE_VAL) THEN 0
  ELSE IF sprn \in ProgrammablePMCs
            /\ b3s_get_PMC_event(e, sprn) \in {10, 6, 22, 28}
    THEN b3s_get_PMC_event(e, sprn)
  ELSE 0

Stall_StoreMMCR0 ==
  /\ ops < MaxOpsStall
  /\ \E value \in B3S_MMCR0Values :
       /\ env' = b3s_helper_store_mmcr0(env, now, value)
       /\ last' = Handler("store_mmcr0", 0, U64(0), value, 0)
  /\ ops' = ops + 1
  /\ UNCHANGED <<now, ticks, hist>>

\* the helper has no MMCR1 handler: the write is a plain register store
Stall_StoreMMCR1 ==
  /\ ops < MaxOpsStall
  /\ \E ev \in PMCnSELValues :
       /\ env' = [env EXCEPT !.mmcr1 = <<ev, ev, ev, ev>>]
       /\ last' = Handler("store_mmcr1", 0, U64(0), {}, 0)
  /\ ops' = ops + 1
  /\ UNCHANGED <<now, ticks, hist>>

Stall_StorePMC ==
  /\ ops < MaxOpsStall
  /\ \E sprn \in B3S_WrittenPMCs, value \in B3S_PMCValues :
       /\ env' = b3s_helper_store_pmc(env, now, sprn, value)
       /\ last' = Handler("store_pmc", sprn, value, {}, 0)
  /\ ops' = ops + 1
  /\ UNCHANGED <<now, ticks, hist>>

NextStall ==
  \/ Stall_StoreMMCR0
  \/ Stall_StoreMMCR1
  \/ Stall_StorePMC

SpecStall == InitB3S /\ [][NextStall]_vars

(***************************************************************************)
(* C40  In the single-timer helper get_stall_timeout is reached only for   *)
(* events whose stall ratio is non-zero (0x06, 0x0A, 0x16, 0x1C), so the   *)
(* division 100 / get_stall_ratio(event) never divides by zero in any      *)
(* reachable state, for every MMCR1 selection value.                       *)
(***************************************************************************)
C40_StallRatioNonZero ==
  \A sprn \in PMCs :
    stall_timeout_event(env, sprn) # 0
      => /\ stall_timeout_event(env, sprn) \in {6, 10, 22, 28}
         /\ get_stall_ratio(stall_timeout_event(env, sprn)) # 0

\* PMC1-4 selected with 0x1C, PMCjCE set, the PMU running: the write of PMC1
\* armed the timer through get_stall_timeout for PMC2
C40_Witness ==
  /\ last.op = "store_pmc" /\ ~last.was_fc
  /\ env.mmcr1[2] = 28
  /\ stall_timeout_event(env, 2) = 28
  /\ env.pmu_intr_timer # NotPending

\* the same selection value for a cycle event, which takes the other path
C40_WitnessCycles ==
  /\ last.op = "store_pmc" /\ ~last.was_fc
  /\ env.mmcr1[2] = 30
  /\ b3s_pmc_counter_negative_enabled(env, 2)
  /\ stall_timeout_event(env, 2) = 0
  /\ env.pmu_intr_timer # NotPending

====
